---- MODULE Spec2Model ----
(***************************************************************************)
(* Timeline recalibration engine of the client checklist application:     *)
(* the Recalculate edge function (lead time, canonical block resolver,     *)
(* block date scheduler, task distributor, dependency enforcer and the    *)
(* request handler with its reads and writes of the record store).         *)
(*                                                                         *)
(* Dates are calendar days counted from 1970-01-01 (the value of a         *)
(* JavaScript Date divided by 86400000).  The function runs with the       *)
(* process clock in UTC, so that local midnight is UTC midnight and every  *)
(* Date the handler builds is a whole number of days.                      *)
(***************************************************************************)
EXTENDS Integers, Sequences, FiniteSets, TLC

VARIABLES
    today,      \* new Date() truncated to midnight, the same for every run
    eventDate,  \* events.date of the timeline's event
    blocks,     \* stored blocks rows of the timeline, in `order`
    tasks,      \* stored tasks rows of the timeline, in `order`
    timeline,   \* stored timelines.scale_factor / last_recalculated_at
    audit,      \* audit_entries, in insertion order
    runs,       \* the Recalculate requests: position and locals of each
    sched,      \* a direct call of recalculateBlockDates
    enf,        \* a direct call of enforceDependencies, pass by pass
    hist,       \* history: the store before the runs, the faults injected
    view        \* the client page: the tasks of its `timeline` state

vars == <<today, eventDate, blocks, tasks, timeline, audit, runs, sched, enf,
          hist, view>>

\* due_date?: string / start_date?: string -- the absent (null) date
NoDate == 0 - 1

--------------------------------------------------------------------------
(* Calendar: what Date.getMonth, getDate, getDay and setMonth compute.     *)
(* doe is the day of the 400-year era, yoe the year of the era, doy the    *)
(* day of the year that starts in March and mp the month of that year.     *)

CivilOfMonth(y, doy, mp) ==
    [year  |-> IF mp >= 10 THEN y + 1 ELSE y,
     month |-> IF mp < 10 THEN mp + 2 ELSE mp - 10,
     date  |-> doy - (153 * mp + 2) \div 5 + 1]

CivilOfDay(y, doy) == CivilOfMonth(y, doy, (5 * doy + 2) \div 153)

CivilOfYear(era, doe, yoe) ==
    CivilOfDay(yoe + era * 400, doe - (365 * yoe + yoe \div 4 - yoe \div 100))

CivilOfEra(era, doe) ==
    CivilOfYear(era, doe,
                (doe - doe \div 1460 + doe \div 36524 - doe \div 146096) \div 365)

\* [year, month (0..11), date (1..31)] of a day number
CivilFromDays(z) ==
    CivilOfEra((z + 719468) \div 146097, (z + 719468) % 146097)

\* the day number of the first day of month mp of the March-based year y
DaysOfYear(y, mp) ==
    (y \div 400) * 146097 + (y % 400) * 365 + (y % 400) \div 4
        - (y % 400) \div 100 + (153 * mp + 2) \div 5 - 719468

\* the day number of the first day of month mn (1..12) of year y
DaysFromCivil(y, mn) ==
    IF mn <= 2 THEN DaysOfYear(y - 1, mn + 9) ELSE DaysOfYear(y, mn - 3)

\* MakeDay(year, month, date): the day number of year/month/1 plus date - 1;
\* month may be any integer and date may run past the end of the month
MakeDay(year, month, date) ==
    DaysFromCivil(year + month \div 12, (month % 12) + 1) + date - 1

\* Date.getDay(): 0 is Sunday
GetDay(d) == (d + 4) % 7

\* ToIntegerOrInfinity of the rational num/den (den > 0): truncation to zero
TruncDiv(num, den) ==
    IF num >= 0 THEN num \div den ELSE 0 - ((0 - num) \div den)

\* Math.ceil of the rational num/den (den > 0)
CeilDiv(num, den) == 0 - ((0 - num) \div den)

Max(a, b) == IF a >= b THEN a ELSE b
Min(a, b) == IF a <= b THEN a ELSE b

--------------------------------------------------------------------------
(* Lead-time calculator.                                                   *)

\* the lead time with the days rounded down to months
calculateLeadTimeMonthsFloor(ev, td) == Max((ev - td) \div 30, 0)

\* Math.max(Math.ceil(daysBetween / 30), 0)
calculateLeadTimeMonths(ev, td) == Max(CeilDiv(ev - td, 30), 0)

\* the scale factor is the rational num/den
calculateScaleFactor(leadTimeMonths) == [num |-> leadTimeMonths, den |-> 12]

--------------------------------------------------------------------------
(* Canonical block resolver.  A key is a sequence of characters; offsets   *)
(* are counted in quarters of a month (a week is a quarter of a month).    *)

Digits == <<"0", "1", "2", "3", "4", "5", "6", "7", "8", "9">>

IsDigit(c) == \E i \in 1..10 : Digits[i] = c

DigitVal(c) == (CHOOSE i \in 1..10 : Digits[i] = c) - 1

LowerChar(c) == IF c = "M" THEN "m" ELSE IF c = "W" THEN "w" ELSE c

toLowerCase(s) == [i \in 1..Len(s) |-> LowerChar(s[i])]

\* String.prototype.includes
Includes(s, sub) ==
    \E i \in 1..(Len(s) - Len(sub) + 1) :
        \A j \in 1..Len(sub) : s[i + j - 1] = sub[j]

\* the table in its insertion order, offsets in quarters of a month
CANONICAL_BLOCKS ==
    << [key |-> <<"1", "2", "m">>,           start |-> 48, end |-> 40],
       [key |-> <<"8", "-", "1", "0", "m">>, start |-> 40, end |-> 32],
       [key |-> <<"6", "-", "8", "m">>,      start |-> 32, end |-> 24],
       [key |-> <<"4", "-", "6", "m">>,      start |-> 24, end |-> 16],
       [key |-> <<"3", "-", "4", "m">>,      start |-> 16, end |-> 12],
       [key |-> <<"1", "-", "2", "m">>,      start |-> 8,  end |-> 4],
       [key |-> <<"2", "w">>,                start |-> 2,  end |-> 0] >>

\* the least element of a non-empty set of numbers
Least(S) == CHOOSE i \in S : \A h \in S : i <= h

\* the position after the run of digits that starts at i
RECURSIVE DigitsEnd(_, _)
DigitsEnd(s, i) ==
    IF i <= Len(s) /\ IsDigit(s[i]) THEN DigitsEnd(s, i + 1) ELSE i

\* parseInt of the digits s[i..j-1]
RECURSIVE ParseInt(_, _, _)
ParseInt(s, i, j) ==
    IF j <= i THEN 0 ELSE 10 * ParseInt(s, i, j - 1) + DigitVal(s[j - 1])

IsUnit(c) == LowerChar(c) \in {"m", "w"}

\* the groups of a match: digits s[i..j-1], then either the unit at j (k = 0)
\* or "-", digits s[j+1..k-1] and the unit at k
MatchGroups(s, i, j, k) ==
    IF k > 0 /\ k <= Len(s) /\ IsUnit(s[k])
    THEN <<[num1 |-> ParseInt(s, i, j), num2 |-> ParseInt(s, j + 1, k),
            unit |-> LowerChar(s[k])]>>
    ELSE IF j <= Len(s) /\ IsUnit(s[j])
    THEN <<[num1 |-> ParseInt(s, i, j), num2 |-> ParseInt(s, i, j),
            unit |-> LowerChar(s[j])]>>
    ELSE <<>>

MatchDigits(s, i, j) ==
    MatchGroups(s, i, j,
                IF j + 1 <= Len(s) /\ s[j] = "-" /\ IsDigit(s[j + 1])
                THEN DigitsEnd(s, j + 1) ELSE 0)

\* /(\d+)(?:-(\d+))?([mw])/i tried at position i: the match or the empty
\* sequence.  \d+ is greedy and a shorter run is always followed by a digit,
\* so backtracking never finds a match the greedy attempt misses.
MatchAt(s, i) ==
    IF ~IsDigit(s[i]) THEN <<>> ELSE MatchDigits(s, i, DigitsEnd(s, i))

FirstMatch(s, hits) == IF hits = {} THEN <<>> ELSE MatchAt(s, Least(hits))

\* String.prototype.match without the g flag: the leftmost match
RegexMatch(s) == FirstMatch(s, {i \in 1..Len(s) : MatchAt(s, i) # <<>>})

\* offsets that take a number of weeks for a number of months
MatchOffsetsInMonths(match) ==
    IF match = <<>> THEN <<>>
    ELSE <<[start |-> 4 * Max(match[1].num1, match[1].num2),
            end   |-> 4 * Min(match[1].num1, match[1].num2)]>>

\* the offsets of a match: months, or weeks divided by 4
MatchOffsets(match) ==
    IF match = <<>> THEN <<>>
    ELSE IF match[1].unit = "m"
    THEN <<[start |-> 4 * Max(match[1].num1, match[1].num2),
            end   |-> 4 * Min(match[1].num1, match[1].num2)]>>
    ELSE <<[start |-> Max(match[1].num1, match[1].num2),
            end   |-> Min(match[1].num1, match[1].num2)]>>

\* the first table entry among found, or the fallback pattern
ResolveKey(blockKey, found) ==
    IF found # {}
    THEN <<[start |-> CANONICAL_BLOCKS[Least(found)].start,
            end   |-> CANONICAL_BLOCKS[Least(found)].end]>>
    ELSE MatchOffsets(RegexMatch(blockKey))

\* the offsets of a key as a sequence of at most one record; <<>> is null
getCanonicalOffsets(blockKey) ==
    ResolveKey(blockKey,
               {i \in 1..Len(CANONICAL_BLOCKS) :
                   \/ Includes(blockKey, CANONICAL_BLOCKS[i].key)
                   \/ Includes(toLowerCase(blockKey),
                               toLowerCase(CANONICAL_BLOCKS[i].key))})

--------------------------------------------------------------------------
(* Block date scheduler.                                                   *)

\* setMonth with the month number rounded down instead of truncated
SetMonthBackFloor(c, quarters, scaleFactor) ==
    MakeDay(c.year,
            (4 * scaleFactor.den * c.month - quarters * scaleFactor.num)
                \div (4 * scaleFactor.den) - 1,
            c.date)

\* setMonth(getMonth() - quarters/4 * scaleFactor) on the civil date c: the
\* month number is truncated towards zero, the day of the month is kept
SetMonthBack(c, quarters, scaleFactor) ==
    MakeDay(c.year,
            TruncDiv(4 * scaleFactor.den * c.month - quarters * scaleFactor.num,
                     4 * scaleFactor.den),
            c.date)

addMonths(date, quarters, scaleFactor) ==
    SetMonthBack(CivilFromDays(date), quarters, scaleFactor)

\* back to the Sunday of the week
roundToWeek(date) == date - GetDay(date)

\* a start before today becomes today + 2
FloorStartNone(startDate, td) == startDate
FloorStart(startDate, td) == IF startDate < td THEN td + 2 ELSE startDate

\* an end before today becomes today + 3
FloorEnd(endDate, td) == IF endDate < td THEN td + 3 ELSE endDate

\* an end after the event becomes the day before the event
CeilEnd(endDate, ev) == IF endDate > ev THEN ev - 1 ELSE endDate

\* an end on or before the start becomes the day after the start
EndAfterStart(startDate, endDate) ==
    IF startDate >= endDate THEN startDate + 1 ELSE endDate

\* a start before the previous block's end becomes that end
PullToNothing(startDate, previousEnd) == startDate
PullToPrevious(startDate, previousEnd) ==
    IF previousEnd # NoDate /\ startDate < previousEnd
    THEN previousEnd ELSE startDate

\* the second consistency fix and the pushed window
FinishWindowUnchecked(startDate, endDate) ==
    [start_date |-> startDate, end_date |-> endDate]
FinishWindow(startDate, endDate) ==
    [start_date |-> startDate, end_date |-> EndAfterStart(startDate, endDate)]

\* the first consistency fix and the pull to the previous end
OrderWindow(startDate, endDate, previousEnd) ==
    FinishWindow(PullToPrevious(startDate, previousEnd),
                 EndAfterStart(startDate, endDate))

\* one iteration of the loop body for a block whose key resolves
BlockWindow(ev, offsets, scaleFactor, td, previousEnd) ==
    OrderWindow(
        FloorStart(roundToWeek(addMonths(ev, offsets.start, scaleFactor)), td),
        CeilEnd(FloorEnd(roundToWeek(addMonths(ev, offsets.end, scaleFactor)), td),
                ev),
        previousEnd)

RECURSIVE RecalcFrom(_, _, _, _, _, _, _)
RECURSIVE RecalcBlock(_, _, _, _, _, _, _, _)
RECURSIVE RecalcPush(_, _, _, _, _, _, _)

\* result.push({id, start_date, end_date}); previousEnd = endDate
RecalcPush(ev, bs, scaleFactor, td, i, result, w) ==
    RecalcFrom(ev, bs, scaleFactor, td, i + 1, w.end_date,
               Append(result, [id |-> bs[i].id, start_date |-> w.start_date,
                               end_date |-> w.end_date]))

\* the loop body: a block without offsets is passed over
RecalcBlock(ev, bs, scaleFactor, td, i, previousEnd, result, offsets) ==
    IF offsets = <<>>
    THEN RecalcFrom(ev, bs, scaleFactor, td, i + 1, previousEnd, result)
    ELSE RecalcPush(ev, bs, scaleFactor, td, i, result,
                    BlockWindow(ev, offsets[1], scaleFactor, td, previousEnd))

RecalcFrom(ev, bs, scaleFactor, td, i, previousEnd, result) ==
    IF i > Len(bs) THEN result
    ELSE RecalcBlock(ev, bs, scaleFactor, td, i, previousEnd, result,
                     getCanonicalOffsets(bs[i].key))

recalculateBlockDates(ev, bs, scaleFactor, td) ==
    RecalcFrom(ev, bs, scaleFactor, td, 1, NoDate, <<>>)

--------------------------------------------------------------------------
(* Task distributor.                                                       *)

\* the comparator of the frontload and balanced branches is negative
SkeletonFirst(a, b) ==
    IF a.is_skeleton # b.is_skeleton THEN a.is_skeleton
    ELSE IF a.weight # b.weight THEN b.weight < a.weight
    ELSE a.title < b.title

\* the comparator of the even branch is negative; a title is its rank in
\* the collation order of localeCompare
TitleOrder(a, b) == a.title < b.title

\* Array.prototype.sort is stable: an element goes after those that precede
\* it and after the earlier ones it ties with
StableSort(s, Before(_, _)) ==
    LET Rank(i) == Cardinality({j \in 1..Len(s) :
                       /\ j # i
                       /\ \/ Before(s[j], s[i])
                          \/ ~Before(s[i], s[j]) /\ j < i}) + 1
    IN  [p \in 1..Len(s) |-> s[CHOOSE i \in 1..Len(s) : Rank(i) = p]]

\* a sort that orders every distribution by title alone
sortTasksByTitle(ts, distribution) == StableSort(ts, TitleOrder)

sortTasksForDistribution(ts, distribution) ==
    IF distribution = "even" THEN StableSort(ts, TitleOrder)
    ELSE StableSort(ts, SkeletonFirst)

\* the integers x below 800 for which the double x * 0.7 lies below 7x/10
SevenTenthsLow ==
    {90, 170, 180, 330, 340, 350, 360, 650, 660, 670, 680, 690, 700, 710,
     720, 730}

\* Math.floor(stride * index) with stride = totalDays / n, in doubles
StrideOffset(totalDays, n, index) == (totalDays * index) \div n

\* Math.floor(stride * index * 0.7) in doubles: 7/10 of the product, one
\* less where the product is an integer that 0.7 rounds below
SkeletonOffset(totalDays, n, index) ==
    IF (totalDays * index) % n = 0
       /\ (totalDays * index) \div n \in SevenTenthsLow
    THEN (7 * totalDays * index) \div (10 * n) - 1
    ELSE (7 * totalDays * index) \div (10 * n)

\* the offset of the task at a 0-based index of the sorted tasks
TaskOffset(task, index, n, totalDays, distribution) ==
    IF distribution = "frontload" /\ task.is_skeleton
    THEN SkeletonOffset(totalDays, n, index)
    ELSE StrideOffset(totalDays, n, index)

\* the due date of the task at a 0-based index of the sorted tasks
TaskDue(task, index, n, blockStartDate, blockEndDate, distribution) ==
    IF blockEndDate - blockStartDate <= 1 THEN blockStartDate
    ELSE Min(blockStartDate
               + TaskOffset(task, index, n, blockEndDate - blockStartDate,
                            distribution),
             blockEndDate)

\* the pairs pushed for the sorted unlocked tasks
SpreadSorted(sorted, blockStartDate, blockEndDate, distribution) ==
    [i \in 1..Len(sorted) |->
        [id |-> sorted[i].id,
         due_date |-> TaskDue(sorted[i], i - 1, Len(sorted), blockStartDate,
                              blockEndDate, distribution)]]

\* the pairs pushed for the locked tasks: those that have a due date
KeepLocked(locked) ==
    [i \in 1..Len(locked) |-> [id |-> locked[i].id, due_date |-> locked[i].due_date]]

\* a distributor that passes every locked task through, dated or not
distributeKeepingUndated(ts, blockStartDate, blockEndDate, distribution, respectLocks) ==
    LET IsUnlocked(t) == ~respectLocks \/ ~t.locked
        IsKept(t)     == respectLocks /\ t.locked
    IN  KeepLocked(SelectSeq(ts, IsKept))
        \o SpreadSorted(sortTasksForDistribution(SelectSeq(ts, IsUnlocked),
                                                 distribution),
                        blockStartDate, blockEndDate, distribution)

distributeTasksInBlock(ts, blockStartDate, blockEndDate, distribution, respectLocks) ==
    LET IsUnlocked(t) == ~respectLocks \/ ~t.locked
        IsKept(t)     == respectLocks /\ t.locked /\ t.due_date # NoDate
    IN  KeepLocked(SelectSeq(ts, IsKept))
        \o SpreadSorted(sortTasksForDistribution(SelectSeq(ts, IsUnlocked),
                                                 distribution),
                        blockStartDate, blockEndDate, distribution)

--------------------------------------------------------------------------
(* Dependency enforcer.                                                    *)

maxIterations == 100

\* taskMap.set(task.id, minDate); changed = true, when taskDate < minDate
RaiseToSameDay(st, id, taskDate, depDate) ==
    IF taskDate < depDate
    THEN [taskMap |-> [st.taskMap EXCEPT ![id] = depDate], changed |-> TRUE]
    ELSE st
\* a comparison dropped: the date is set for every dependency
RaiseToAlways(st, id, taskDate, depDate) ==
    [taskMap |-> [st.taskMap EXCEPT ![id] = depDate + 1], changed |-> TRUE]

\* a raise that does not mark the pass as changed
RaiseToUnmarked(st, id, taskDate, depDate) ==
    IF taskDate < depDate + 1
    THEN [taskMap |-> [st.taskMap EXCEPT ![id] = depDate + 1],
          changed |-> st.changed]
    ELSE st

\* a raise that leaves a free day after the dependency
RaiseToTwoDays(st, id, taskDate, depDate) ==
    IF taskDate < depDate + 1
    THEN [taskMap |-> [st.taskMap EXCEPT ![id] = depDate + 2], changed |-> TRUE]
    ELSE st

RaiseTo(st, id, taskDate, depDate) ==
    IF taskDate < depDate + 1
    THEN [taskMap |-> [st.taskMap EXCEPT ![id] = depDate + 1], changed |-> TRUE]
    ELSE st

\* the inner loop over depends_on_task_ids; taskDate is read once before it
RECURSIVE EnforceDeps(_, _, _, _, _)
EnforceDeps(st, id, taskDate, deps, k) ==
    IF k > Len(deps) THEN st
    ELSE IF deps[k] \notin DOMAIN st.taskMap
    THEN EnforceDeps(st, id, taskDate, deps, k + 1)
    ELSE EnforceDeps(RaiseTo(st, id, taskDate, st.taskMap[deps[k]]),
                     id, taskDate, deps, k + 1)

\* the greatest element of a non-empty set of numbers
Greatest(S) == CHOOSE i \in S : \A j \in S : j <= i

DepsOfRows(allTasks, rows) ==
    IF rows = {} THEN <<>> ELSE allTasks[Greatest(rows)].depends_on_task_ids

\* depends_on_task_ids of a task id in allTasks; <<>> when there is none
DepsOf(allTasks, id) ==
    DepsOfRows(allTasks, {i \in 1..Len(allTasks) : allTasks[i].id = id})

\* the loop over tasks of one pass, from the i-th task on
RECURSIVE EnforceTasks(_, _, _, _)
EnforceTasks(st, ts, allTasks, i) ==
    IF i > Len(ts) THEN st
    ELSE EnforceTasks(EnforceDeps(st, ts[i].id, st.taskMap[ts[i].id],
                                  DepsOf(allTasks, ts[i].id), 1),
                      ts, allTasks, i + 1)

\* one pass of the while loop over a task map
EnforcePass(taskMap, ts, allTasks) ==
    EnforceTasks([taskMap |-> taskMap, changed |-> FALSE], ts, allTasks, 1)

\* new Map(tasks.map(t => [t.id, new Date(t.due_date)]))
InitialTaskMap(ts) ==
    [id \in {ts[i].id : i \in 1..Len(ts)} |->
        ts[Greatest({i \in 1..Len(ts) : ts[i].id = id})].due_date]

RECURSIVE EnforceLoop(_, _, _, _, _)
RECURSIVE EnforceAgain(_, _, _, _)

\* the loop condition is read again after a pass
EnforceAgain(st, iterations, ts, allTasks) ==
    EnforceLoop(st.taskMap, st.changed, iterations, ts, allTasks)

EnforceLoop(taskMap, changed, iterations, ts, allTasks) ==
    IF changed /\ iterations < maxIterations
    THEN EnforceAgain(EnforcePass(taskMap, ts, allTasks), iterations + 1, ts,
                      allTasks)
    ELSE taskMap

\* Array.from(taskMap.entries()): the ids in the order of first insertion
RECURSIVE MapEntries(_, _, _)
MapEntries(taskMap, ts, i) ==
    IF i > Len(ts) THEN <<>>
    ELSE IF \E j \in 1..(i - 1) : ts[j].id = ts[i].id
    THEN MapEntries(taskMap, ts, i + 1)
    ELSE <<[id |-> ts[i].id, due_date |-> taskMap[ts[i].id]]>>
         \o MapEntries(taskMap, ts, i + 1)

enforceDependencies(ts, allTasks) ==
    MapEntries(EnforceLoop(InitialTaskMap(ts), TRUE, 0, ts, allTasks), ts, 1)

--------------------------------------------------------------------------
(* Values shared by the specifications.                                    *)

\* the clock of the runs: 2026-11-02, a Monday
Today0 == 20759

\* values of the variables a specification does not use
NoRuns  == <<>>
NoSched == [pc |-> "off"]
NoEnf   == [pc |-> "off"]
NoHist  == [faults |-> 0]
NoView  == <<>>

NoTimeline == [scale_factor |-> [num |-> 0, den |-> 12],
               last_recalculated_at |-> NoDate]

\* all sequences over S of length lo..hi
SeqsOf(S, lo, hi) == UNION {[1..n -> S] : n \in lo..hi}

\* a blocks row that was never scheduled
BlockRow(i, key) ==
    [id |-> i, key |-> key, start_date |-> NoDate, end_date |-> NoDate]

\* a tasks row
TaskRow(i, b, locked, done, skeleton, dueDate, deps) ==
    [id |-> i, block_id |-> b, title |-> i, weight |-> 1,
     is_skeleton |-> skeleton, locked |-> locked, done |-> done,
     due_date |-> dueDate, depends_on_task_ids |-> deps]

--------------------------------------------------------------------------
(* SpecSched: recalculateBlockDates called on its own, for event dates     *)
(* around and after today, any lead time and any short list of keys.       *)

MaxPast   == 3
MaxAhead  == 62
MaxLead   == 13
MaxBlocks == 3

FarAhead == {90, 181, 365, 400}

SchedKeys ==
    { <<"1", "2", "m">>, <<"2", "w">>, <<"3", "w">>, <<"9", "9", "x">> }

SchedInit ==
    /\ today = Today0
    /\ eventDate \in {Today0 + k : k \in ((0 - MaxPast)..MaxAhead) \cup FarAhead}
    /\ \E keys \in SeqsOf(SchedKeys, 1, MaxBlocks) :
          blocks = [i \in 1..Len(keys) |-> BlockRow(i, keys[i])]
    /\ \E lead \in 0..MaxLead :
          sched = [pc |-> "ready", scaleFactor |-> calculateScaleFactor(lead),
                   result |-> <<>>]
    /\ tasks = <<>>
    /\ timeline = NoTimeline
    /\ audit = <<>>
    /\ view = NoView
    /\ runs = NoRuns
    /\ enf = NoEnf
    /\ hist = NoHist

SchedCall ==
    /\ sched.pc = "ready"
    /\ sched' = [sched EXCEPT
                   !.pc = "done",
                   !.result = recalculateBlockDates(eventDate, blocks,
                                                    sched.scaleFactor, today)]
    /\ UNCHANGED <<today, eventDate, blocks, tasks, timeline, audit, runs, enf, hist,
                   view>>

SchedNext == SchedCall

SpecSched == SchedInit /\ [][SchedNext]_vars

--------------------------------------------------------------------------
(* SpecEnf: enforceDependencies called on its own and followed pass by     *)
(* pass, for any dependency lists, cycles and ids without a proposed date  *)
(* included, each proposed date being day 1 or day MaxDue.                 *)

EnfIds  == 1..3
MaxDeps == 2
MaxDue  == 3

\* lists of distinct ids
DepLists ==
    {d \in SeqsOf(EnfIds, 0, MaxDeps) :
        \A i, j \in 1..Len(d) : i # j => d[i] # d[j]}

EnfInit ==
    /\ \E deps \in [EnfIds -> DepLists] :
          tasks = [i \in EnfIds |->
                      TaskRow(i, 1, FALSE, FALSE, FALSE, NoDate, deps[i])]
    /\ \E n \in {Cardinality(EnfIds) - 1, Cardinality(EnfIds)} : \E dates \in [1..n -> {1, MaxDue}] :
          LET proposed == [i \in 1..n |-> [id |-> i, due_date |-> dates[i]]]
          IN  enf = [pc |-> "loop", tasks |-> proposed,
                     taskMap |-> InitialTaskMap(proposed),
                     changed |-> TRUE, iterations |-> 0, result |-> <<>>]
    /\ today = Today0
    /\ eventDate = Today0
    /\ blocks = <<>>
    /\ timeline = NoTimeline
    /\ audit = <<>>
    /\ view = NoView
    /\ runs = NoRuns
    /\ sched = NoSched
    /\ hist = NoHist

\* the loop's variables after a pass
AfterPass(e, st) ==
    [e EXCEPT !.taskMap = st.taskMap, !.changed = st.changed,
              !.iterations = e.iterations + 1]

\* one iteration of a while loop that has no iteration cap
EnfPassUncapped ==
    /\ enf.pc = "loop"
    /\ enf.changed
    /\ enf' = AfterPass(enf, EnforcePass(enf.taskMap, enf.tasks, tasks))
    /\ UNCHANGED <<today, eventDate, blocks, tasks, timeline, audit, runs, sched,
                   hist, view>>

\* one iteration of the while loop
EnfPass ==
    /\ enf.pc = "loop"
    /\ enf.changed /\ enf.iterations < maxIterations
    /\ enf' = AfterPass(enf, EnforcePass(enf.taskMap, enf.tasks, tasks))
    /\ UNCHANGED <<today, eventDate, blocks, tasks, timeline, audit, runs, sched,
                   hist, view>>

\* the loop condition fails: the map is returned
EnfReturn ==
    /\ enf.pc = "loop"
    /\ ~(enf.changed /\ enf.iterations < maxIterations)
    /\ enf' = [enf EXCEPT !.pc = "done",
                          !.result = MapEntries(enf.taskMap, enf.tasks, 1)]
    /\ UNCHANGED <<today, eventDate, blocks, tasks, timeline, audit, runs, sched,
                   hist, view>>

EnfNext == EnfPass \/ EnfReturn

SpecEnf == EnfInit /\ [][EnfNext]_vars

--------------------------------------------------------------------------
(* SpecScale: the lead time and the scale factor computed on their own,    *)
(* and with them the raw window of block "6-8m", for any today within a    *)
(* year and any event date from some weeks before it to half a year after. *)

MaxShift == 370
MaxBack  == 35
MaxSpan  == 190

\* the values of lines 805-806 and 589-590 for a block with these offsets
ScaledWindow(ev, offsets, leadTimeMonths, scaleFactor) ==
    [pc |-> "scaled", leadTimeMonths |-> leadTimeMonths,
     scaleFactor |-> scaleFactor,
     rawStart |-> addMonths(ev, offsets.start, scaleFactor),
     rawEnd |-> addMonths(ev, offsets.end, scaleFactor)]

ScaledFor(ev, offsets, leadTimeMonths) ==
    ScaledWindow(ev, offsets, leadTimeMonths,
                 calculateScaleFactor(leadTimeMonths))

ScaleInit ==
    /\ today \in {Today0 + k : k \in 0..MaxShift}
    /\ eventDate \in {today + k : k \in (0 - MaxBack)..MaxSpan}
    /\ sched = [pc |-> "unscaled"]
    /\ blocks = <<BlockRow(1, <<"6", "-", "8", "m">>)>>
    /\ tasks = <<>>
    /\ timeline = NoTimeline
    /\ audit = <<>>
    /\ view = NoView
    /\ runs = NoRuns
    /\ enf = NoEnf
    /\ hist = NoHist

ScaleCall ==
    /\ sched.pc = "unscaled"
    /\ sched' = ScaledFor(eventDate, getCanonicalOffsets(blocks[1].key)[1],
                          calculateLeadTimeMonths(eventDate, today))
    /\ UNCHANGED <<today, eventDate, blocks, tasks, timeline, audit, runs, enf, hist,
                   view>>

ScaleNext == ScaleCall

SpecScale == ScaleInit /\ [][ScaleNext]_vars

--------------------------------------------------------------------------
(* The request handler.  Each await of the handler is one step; the code   *)
(* between two awaits runs without interruption.  A store call may fail:   *)
(* a failed read returns an error, a failed update changes nothing and its *)
(* error is not looked at.                                                 *)

\* the id of the timeline in the store
TimelineId == "t1"

\* url.pathname.split('/').filter(Boolean) of the requests: the function's
\* own path with the timeline's id, with another id, without an id, and "/"
FunctionPath == <<"functions", "v1", "timelines-recalculate">>

Paths == {<<>>, FunctionPath, FunctionPath \o <<TimelineId>>,
          FunctionPath \o <<"t9">>}

Distributions == {"frontload", "balanced", "even"}

IdleRun == [pc |-> "idle", status |-> 0]

RECURSIVE DistributeAll(_, _, _, _, _, _)
RECURSIVE DistributeBlock(_, _, _, _, _, _, _, _)

\* the loop body with the tasks of a block that was not scheduled spread
\* over the block's stored window
DistributeBlockStored(bs, ts, recalculatedBlocks, distribution, respectLocks, i, blockTasks, found) ==
    IF blockTasks = <<>>
    THEN DistributeAll(bs, ts, recalculatedBlocks, distribution, respectLocks,
                       i + 1)
    ELSE distributeTasksInBlock(blockTasks,
                                IF found = {} THEN bs[i].start_date
                                ELSE recalculatedBlocks[Least(found)].start_date,
                                IF found = {} THEN bs[i].end_date
                                ELSE recalculatedBlocks[Least(found)].end_date,
                                distribution, respectLocks)
         \o DistributeAll(bs, ts, recalculatedBlocks, distribution,
                          respectLocks, i + 1)

\* the loop body with every block's tasks spread over the window of the
\* first scheduled block
DistributeBlockFirstWindow(bs, ts, recalculatedBlocks, distribution, respectLocks, i, blockTasks, found) ==
    IF found = {} \/ blockTasks = <<>>
    THEN DistributeAll(bs, ts, recalculatedBlocks, distribution, respectLocks,
                       i + 1)
    ELSE distributeTasksInBlock(blockTasks,
                                recalculatedBlocks[1].start_date,
                                recalculatedBlocks[1].end_date,
                                distribution, respectLocks)
         \o DistributeAll(bs, ts, recalculatedBlocks, distribution,
                          respectLocks, i + 1)

\* the loop body: the block's tasks and the scheduled blocks with its id
DistributeBlock(bs, ts, recalculatedBlocks, distribution, respectLocks, i, blockTasks, found) ==
    IF found = {} \/ blockTasks = <<>>
    THEN DistributeAll(bs, ts, recalculatedBlocks, distribution, respectLocks,
                       i + 1)
    ELSE distributeTasksInBlock(blockTasks,
                                recalculatedBlocks[Least(found)].start_date,
                                recalculatedBlocks[Least(found)].end_date,
                                distribution, respectLocks)
         \o DistributeAll(bs, ts, recalculatedBlocks, distribution,
                          respectLocks, i + 1)

\* blocks.map(block => ({...block, tasks: tasks.filter(...)})) and the loop
\* that distributes the tasks of every scheduled block that has tasks
DistributeAll(bs, ts, recalculatedBlocks, distribution, respectLocks, i) ==
    IF i > Len(bs) THEN <<>>
    ELSE LET InBlock(t) == t.block_id = bs[i].id
         IN  DistributeBlock(bs, ts, recalculatedBlocks, distribution,
                             respectLocks, i, SelectSeq(ts, InBlock),
                             {k \in 1..Len(recalculatedBlocks) :
                                 recalculatedBlocks[k].id = bs[i].id})

\* the phase of the first write that is still to be issued
WritePhase(recalculatedBlocks, allTaskUpdates, b, t) ==
    IF b <= Len(recalculatedBlocks) THEN "writeBlocks"
    ELSE IF t <= Len(allTaskUpdates) THEN "writeTasks"
    ELSE "writeTimeline"

\* the run once the timeline and its event are loaded
LoadedRun(run, ev, td, leadTimeMonths) ==
    [pc |-> "fetchBlocks", status |-> 0,
     timelineId |-> run.timelineId,
     respectLocks |-> run.respectLocks,
     distribution |-> run.distribution,
     eventDate |-> ev, today |-> td,
     leadTimeMonths |-> leadTimeMonths,
     scaleFactor |-> calculateScaleFactor(leadTimeMonths)]

\* the run once the updates are computed, before the first write
PlannedRun(run, ts, recalculatedBlocks, allTaskUpdates) ==
    [pc |-> WritePhase(recalculatedBlocks, allTaskUpdates, 1, 1),
     status |-> 0,
     timelineId |-> run.timelineId,
     respectLocks |-> run.respectLocks,
     distribution |-> run.distribution,
     eventDate |-> run.eventDate, today |-> run.today,
     leadTimeMonths |-> run.leadTimeMonths,
     scaleFactor |-> run.scaleFactor,
     blocks |-> run.blocks, tasks |-> ts,
     recalculatedBlocks |-> recalculatedBlocks,
     allTaskUpdates |-> allTaskUpdates,
     b |-> 1, t |-> 1]

\* distributing and enforcing over the scheduled blocks
PlanTasks(run, ts, recalculatedBlocks) ==
    PlannedRun(run, ts, recalculatedBlocks,
               enforceDependencies(
                   DistributeAll(run.blocks, ts, recalculatedBlocks,
                                 run.distribution, run.respectLocks, 1),
                   ts))

\* scheduling, distributing and enforcing: the code between the tasks fetch
\* and the first update
PlanRun(run, ts) ==
    PlanTasks(run, ts,
              recalculateBlockDates(run.eventDate, run.blocks, run.scaleFactor,
                                    run.today))

\* a store call fails only while the fault budget lasts
MayFail(ok) == ok \/ hist.faults < hist.maxFaults

CountFault(ok) ==
    hist' = IF ok THEN hist ELSE [hist EXCEPT !.faults = hist.faults + 1]

\* the request arrives: the id check and the body's options
Start(r) ==
    /\ r \in DOMAIN runs
    /\ runs[r].pc = "idle"
    /\ hist.serial => \A q \in DOMAIN runs : q < r => runs[q].pc = "done"
    /\ \E path \in Paths, respectLocks \in BOOLEAN, distribution \in Distributions :
          LET timelineId == IF path = <<>> THEN "" ELSE path[Len(path)]
          IN  runs' = [runs EXCEPT ![r] =
                  IF timelineId = ""
                  THEN [pc |-> "done", status |-> 400]
                  ELSE [pc |-> "fetchTimeline", status |-> 0,
                        timelineId |-> timelineId,
                        respectLocks |-> respectLocks,
                        distribution |-> distribution]]
    /\ UNCHANGED <<today, eventDate, blocks, tasks, timeline, audit, sched, enf,
                   hist, view>>

\* from('timelines').select('*, events(*)').eq('id', timelineId).single()
FetchTimeline(r) ==
    /\ r \in DOMAIN runs
    /\ runs[r].pc = "fetchTimeline"
    /\ \E ok \in BOOLEAN :
          /\ MayFail(ok)
          /\ CountFault(ok)
          /\ runs' = [runs EXCEPT ![r] =
                IF ~ok \/ runs[r].timelineId # TimelineId
                THEN [@ EXCEPT !.pc = "done", !.status = 404]
                ELSE LoadedRun(@, eventDate, today,
                               calculateLeadTimeMonths(eventDate, today))]
    /\ UNCHANGED <<today, eventDate, blocks, tasks, timeline, audit, sched, enf,
                   view>>

\* from('blocks').select('*').eq('timeline_id', timelineId).order('order')
FetchBlocks(r) ==
    /\ r \in DOMAIN runs
    /\ runs[r].pc = "fetchBlocks"
    /\ \E ok \in BOOLEAN :
          /\ MayFail(ok)
          /\ CountFault(ok)
          /\ runs' = [runs EXCEPT ![r] =
                IF ~ok THEN [@ EXCEPT !.pc = "done", !.status = 500]
                ELSE [pc |-> "fetchTasks", status |-> 0,
                      timelineId |-> @.timelineId,
                      respectLocks |-> @.respectLocks,
                      distribution |-> @.distribution,
                      eventDate |-> @.eventDate, today |-> @.today,
                      leadTimeMonths |-> @.leadTimeMonths,
                      scaleFactor |-> @.scaleFactor,
                      blocks |-> blocks]]
    /\ UNCHANGED <<today, eventDate, blocks, tasks, timeline, audit, sched, enf,
                   view>>

\* the tasks fetch issued after the timeline was stamped as recalculated
FetchTasksAfterStamp(r) ==
    /\ r \in DOMAIN runs
    /\ runs[r].pc = "fetchTasks"
    /\ \E ok \in BOOLEAN :
          /\ MayFail(ok)
          /\ CountFault(ok)
          /\ runs' = [runs EXCEPT ![r] =
                IF ~ok THEN [@ EXCEPT !.pc = "done", !.status = 500]
                ELSE PlanRun(@, tasks)]
    /\ timeline' = [timeline EXCEPT !.last_recalculated_at = runs[r].today]
    /\ UNCHANGED <<today, eventDate, blocks, tasks, audit, sched, enf, view>>

\* from('tasks').select('*')...order('order'), then scheduling, distributing
\* and enforcing up to the first update
FetchTasks(r) ==
    /\ r \in DOMAIN runs
    /\ runs[r].pc = "fetchTasks"
    /\ \E ok \in BOOLEAN :
          /\ MayFail(ok)
          /\ CountFault(ok)
          /\ runs' = [runs EXCEPT ![r] =
                IF ~ok THEN [@ EXCEPT !.pc = "done", !.status = 500]
                ELSE PlanRun(@, tasks)]
    /\ UNCHANGED <<today, eventDate, blocks, tasks, timeline, audit, sched, enf,
                   view>>

\* from('blocks').update({start_date, end_date}).eq('id', blockUpdate.id)
WriteBlock(r) ==
    /\ r \in DOMAIN runs
    /\ runs[r].pc = "writeBlocks"
    /\ \E ok \in BOOLEAN :
          /\ MayFail(ok)
          /\ CountFault(ok)
          /\ LET blockUpdate == runs[r].recalculatedBlocks[runs[r].b]
             IN  blocks' = IF ~ok THEN blocks
                           ELSE [i \in 1..Len(blocks) |->
                                   IF blocks[i].id = blockUpdate.id
                                   THEN [blocks[i] EXCEPT
                                           !.start_date = blockUpdate.start_date,
                                           !.end_date = blockUpdate.end_date]
                                   ELSE blocks[i]]
    /\ runs' = [runs EXCEPT ![r].b = @ + 1,
                            ![r].pc = WritePhase(runs[r].recalculatedBlocks,
                                                 runs[r].allTaskUpdates,
                                                 runs[r].b + 1, runs[r].t)]
    /\ UNCHANGED <<today, eventDate, tasks, timeline, audit, sched, enf, view>>

\* the task update applied only to a row that still has the due date the
\* run loaded
WriteTaskIfUnchanged(r) ==
    /\ r \in DOMAIN runs
    /\ runs[r].pc = "writeTasks"
    /\ \E ok \in BOOLEAN :
          /\ MayFail(ok)
          /\ CountFault(ok)
          /\ tasks' = IF ~ok THEN tasks
                       ELSE [i \in 1..Len(tasks) |->
                               IF /\ tasks[i].id = runs[r].allTaskUpdates[runs[r].t].id
                                  /\ tasks[i].due_date = runs[r].tasks[i].due_date
                               THEN [tasks[i] EXCEPT !.due_date =
                                       runs[r].allTaskUpdates[runs[r].t].due_date]
                               ELSE tasks[i]]
    /\ runs' = [runs EXCEPT ![r].t = @ + 1,
                            ![r].pc = WritePhase(runs[r].recalculatedBlocks,
                                                 runs[r].allTaskUpdates,
                                                 runs[r].b, runs[r].t + 1)]
    /\ UNCHANGED <<today, eventDate, blocks, timeline, audit, sched, enf, view>>

\* the task update clearing the lock of the task it dates
WriteTaskUnlocking(r) ==
    /\ r \in DOMAIN runs
    /\ runs[r].pc = "writeTasks"
    /\ \E ok \in BOOLEAN :
          /\ MayFail(ok)
          /\ CountFault(ok)
          /\ tasks' = IF ~ok THEN tasks
                       ELSE [i \in 1..Len(tasks) |->
                               IF tasks[i].id = runs[r].allTaskUpdates[runs[r].t].id
                               THEN [tasks[i] EXCEPT
                                       !.due_date =
                                           runs[r].allTaskUpdates[runs[r].t].due_date,
                                       !.locked = FALSE]
                               ELSE tasks[i]]
    /\ runs' = [runs EXCEPT ![r].t = @ + 1,
                            ![r].pc = WritePhase(runs[r].recalculatedBlocks,
                                                 runs[r].allTaskUpdates,
                                                 runs[r].b, runs[r].t + 1)]
    /\ UNCHANGED <<today, eventDate, blocks, timeline, audit, sched, enf, view>>

\* the task update with a failed update ending the run with status 500
WriteTaskAborting(r) ==
    /\ r \in DOMAIN runs
    /\ runs[r].pc = "writeTasks"
    /\ \E ok \in BOOLEAN :
          /\ MayFail(ok)
          /\ CountFault(ok)
          /\ tasks' = IF ~ok THEN tasks
                       ELSE [i \in 1..Len(tasks) |->
                               IF tasks[i].id = runs[r].allTaskUpdates[runs[r].t].id
                               THEN [tasks[i] EXCEPT !.due_date =
                                       runs[r].allTaskUpdates[runs[r].t].due_date]
                               ELSE tasks[i]]
          /\ runs' = IF ~ok
                      THEN [runs EXCEPT ![r].pc = "done", ![r].status = 500]
                      ELSE [runs EXCEPT ![r].t = @ + 1,
                                        ![r].pc = WritePhase(runs[r].recalculatedBlocks,
                                                             runs[r].allTaskUpdates,
                                                             runs[r].b, runs[r].t + 1)]
    /\ UNCHANGED <<today, eventDate, blocks, timeline, audit, sched, enf, view>>

\* the task update without its filter on the row id: every row is updated
WriteTaskUnfiltered(r) ==
    /\ r \in DOMAIN runs
    /\ runs[r].pc = "writeTasks"
    /\ \E ok \in BOOLEAN :
          /\ MayFail(ok)
          /\ CountFault(ok)
          /\ LET taskUpdate == runs[r].allTaskUpdates[runs[r].t]
             IN  tasks' = IF ~ok THEN tasks
                          ELSE [i \in 1..Len(tasks) |->
                                  [tasks[i] EXCEPT
                                      !.due_date = taskUpdate.due_date]]
    /\ runs' = [runs EXCEPT ![r].t = @ + 1,
                            ![r].pc = WritePhase(runs[r].recalculatedBlocks,
                                                 runs[r].allTaskUpdates,
                                                 runs[r].b, runs[r].t + 1)]
    /\ UNCHANGED <<today, eventDate, blocks, timeline, audit, sched, enf, view>>

\* from('tasks').update({due_date}).eq('id', taskUpdate.id)
WriteTask(r) ==
    /\ r \in DOMAIN runs
    /\ runs[r].pc = "writeTasks"
    /\ \E ok \in BOOLEAN :
          /\ MayFail(ok)
          /\ CountFault(ok)
          /\ LET taskUpdate == runs[r].allTaskUpdates[runs[r].t]
             IN  tasks' = IF ~ok THEN tasks
                          ELSE [i \in 1..Len(tasks) |->
                                  IF tasks[i].id = taskUpdate.id
                                  THEN [tasks[i] EXCEPT
                                          !.due_date = taskUpdate.due_date]
                                  ELSE tasks[i]]
    /\ runs' = [runs EXCEPT ![r].t = @ + 1,
                            ![r].pc = WritePhase(runs[r].recalculatedBlocks,
                                                 runs[r].allTaskUpdates,
                                                 runs[r].b, runs[r].t + 1)]
    /\ UNCHANGED <<today, eventDate, blocks, timeline, audit, sched, enf, view>>

\* from('timelines').update({last_recalculated_at, scale_factor})
WriteTimeline(r) ==
    /\ r \in DOMAIN runs
    /\ runs[r].pc = "writeTimeline"
    /\ \E ok \in BOOLEAN :
          /\ MayFail(ok)
          /\ CountFault(ok)
          /\ timeline' = IF ~ok THEN timeline
                         ELSE [scale_factor |-> runs[r].scaleFactor,
                               last_recalculated_at |-> runs[r].today]
    /\ runs' = [runs EXCEPT ![r].pc = "insertAudit"]
    /\ UNCHANGED <<today, eventDate, blocks, tasks, audit, sched, enf, view>>

\* the audit insert recording the default of respectLocks instead of the
\* request's value
InsertAuditDefaults(r) ==
    /\ r \in DOMAIN runs
    /\ runs[r].pc = "insertAudit"
    /\ \E ok \in BOOLEAN :
          /\ MayFail(ok)
          /\ CountFault(ok)
          /\ audit' = IF ~ok THEN audit
                      ELSE Append(audit,
                             [timeline_id |-> runs[r].timelineId,
                              task_id |-> "null", action |-> "edit",
                              actor |-> "admin",
                              changes |-> [type |-> "recalculation",
                                           lead_time_months |-> runs[r].leadTimeMonths,
                                           scale_factor |-> runs[r].scaleFactor,
                                           distribution |-> runs[r].distribution,
                                           respect_locks |-> TRUE]])
    /\ runs' = [runs EXCEPT ![r].pc = "done", ![r].status = 200]
    /\ UNCHANGED <<today, eventDate, blocks, tasks, timeline, sched, enf, view>>

\* from('audit_entries').insert({...}), then the success response
InsertAudit(r) ==
    /\ r \in DOMAIN runs
    /\ runs[r].pc = "insertAudit"
    /\ \E ok \in BOOLEAN :
          /\ MayFail(ok)
          /\ CountFault(ok)
          /\ audit' = IF ~ok THEN audit
                      ELSE Append(audit,
                             [timeline_id |-> runs[r].timelineId,
                              task_id |-> "null", action |-> "edit",
                              actor |-> "admin",
                              changes |-> [type |-> "recalculation",
                                           lead_time_months |-> runs[r].leadTimeMonths,
                                           scale_factor |-> runs[r].scaleFactor,
                                           distribution |-> runs[r].distribution,
                                           respect_locks |-> runs[r].respectLocks]])
    /\ runs' = [runs EXCEPT ![r].pc = "done", ![r].status = 200]
    /\ UNCHANGED <<today, eventDate, blocks, tasks, timeline, sched, enf, view>>

\* the requests of a behaviour
RunIds == {1, 2}

Next ==
    \/ \E r \in RunIds : Start(r)
    \/ \E r \in RunIds : FetchTimeline(r)
    \/ \E r \in RunIds : FetchBlocks(r)
    \/ \E r \in RunIds : FetchTasks(r)
    \/ \E r \in RunIds : WriteBlock(r)
    \/ \E r \in RunIds : WriteTask(r)
    \/ \E r \in RunIds : WriteTimeline(r)
    \/ \E r \in RunIds : InsertAudit(r)

--------------------------------------------------------------------------
(* Specifications of the handler.  The store starts with two blocks that   *)
(* were scheduled some weeks ago and two tasks, the first a skeleton task. *)

MaxFaults == 1

\* the stored window of a block before the runs
StaleStart == Today0 - 30
StaleEnd   == Today0 - 20

\* depends_on_task_ids of tasks 1 and 2: none, 1 on 2, 2 on 1, a cycle
NoEdges  == << <<>>, <<>> >>
Edge12   == << <<2>>, <<>> >>
Edge21   == << <<>>, <<1>> >>
EdgeBoth == << <<2>>, <<1>> >>

TaskPairs(lockChoices, doneChoices, dueChoices, graphs) ==
    { << TaskRow(1, b1, l1, d1, TRUE, due1, g[1]),
         TaskRow(2, b2, l2, FALSE, FALSE, due2, g[2]) >> :
        b1 \in 1..2, b2 \in 1..2, l1 \in lockChoices, l2 \in lockChoices,
        d1 \in doneChoices, due1 \in dueChoices, due2 \in dueChoices,
        g \in graphs }

StoreInit(eventOffsets, keyLists, taskSets) ==
    /\ today = Today0
    /\ eventDate \in {Today0 + k : k \in eventOffsets}
    /\ \E keys \in keyLists :
          blocks = [i \in 1..Len(keys) |->
                      [BlockRow(i, keys[i]) EXCEPT !.start_date = StaleStart,
                                                   !.end_date = StaleEnd]]
    /\ tasks \in taskSets
    /\ timeline = NoTimeline
    /\ audit = <<>>
    /\ view = NoView
    /\ sched = NoSched
    /\ enf = NoEnf

\* serial: the requests come from one admin page, whose Recalculate button
\* is disabled while a request is in flight
HandlerInit(runIds, serial, maxFaults) ==
    /\ runs = [r \in runIds |-> IdleRun]
    /\ hist = [faults |-> 0, maxFaults |-> maxFaults, serial |-> serial,
               blocks0 |-> blocks, tasks0 |-> tasks, timeline0 |-> timeline]

K68m == <<"6", "-", "8", "m">>
K2w  == <<"2", "w">>
K99x == <<"9", "9", "x">>

\* Spec: one request, store calls may fail
Init ==
    /\ StoreInit({20, 200},
                 {<<K68m, K2w>>, <<K68m, K99x>>, <<K2w, K68m>>},
                 TaskPairs(BOOLEAN, {FALSE}, {NoDate, Today0 + 1},
                           {NoEdges, Edge12}))
    /\ HandlerInit({1}, TRUE, MaxFaults)

Spec == Init /\ [][Next]_vars

\* SpecPlan: one request, every store call succeeds
PlanInit ==
    /\ StoreInit({20, 200},
                 {<<K68m, K2w>>, <<K68m, K99x>>, <<K2w, K68m>>},
                 TaskPairs(BOOLEAN, BOOLEAN, {NoDate, Today0 + 1, Today0 + 250},
                           {NoEdges, Edge12, Edge21, EdgeBoth}))
    /\ HandlerInit({1}, TRUE, 0)

SpecPlan == PlanInit /\ [][Next]_vars

\* SpecTwice: two requests one after the other on a timeline whose tasks
\* are all locked and dated, every store call succeeds
TwiceInit ==
    /\ StoreInit({20},
                 {<<K68m, K2w>>, <<K2w, K99x>>},
                 TaskPairs({TRUE}, {FALSE}, {Today0 + 1, Today0 + 250},
                           {NoEdges, Edge12, Edge21}))
    /\ HandlerInit({1, 2}, TRUE, 0)

SpecTwice == TwiceInit /\ [][Next]_vars

\* SpecRace: two requests for the same timeline whose steps interleave in
\* any order, every store call succeeds
RaceInit ==
    /\ StoreInit({20},
                 {<<K68m, K2w>>},
                 TaskPairs(BOOLEAN, {FALSE}, {Today0 + 1}, {NoEdges, Edge12}))
    /\ HandlerInit({1, 2}, FALSE, 0)

SpecRace == RaceInit /\ [][Next]_vars

--------------------------------------------------------------------------
(* Properties of the dependency enforcer (SpecEnf).                        *)

\* the due date of id in a list of {id, due_date} pairs
DueIn(pairs, id) ==
    pairs[CHOOSE i \in 1..Len(pairs) : pairs[i].id = id].due_date

HasId(pairs, id) == \E i \in 1..Len(pairs) : pairs[i].id = id

\* every task of the pairs is strictly later than each of its dependencies
\* that is among the pairs
DepsOrdered(pairs, allTasks) ==
    \A i \in 1..Len(pairs) :
        LET deps == DepsOf(allTasks, pairs[i].id)
        IN  \A k \in 1..Len(deps) :
                HasId(pairs, deps[k]) => pairs[i].due_date > DueIn(pairs, deps[k])

\* C1: when enforceDependencies returns because a pass changed nothing,
\* every task of its output is due strictly later than each of its
\* dependencies that has a due date in the output.
EnfConvergedOrdered ==
    (enf.pc = "done" /\ ~enf.changed) => DepsOrdered(enf.result, tasks)

\* a call that converged after more than one pass and raised a date
EnfConvergedAfterPush ==
    /\ enf.pc = "done" /\ ~enf.changed /\ enf.iterations > 2
    /\ \E i \in 1..Len(enf.result) :
          enf.result[i].due_date > enf.tasks[i].due_date
    /\ \E i \in 1..Len(enf.result) :
          \E k \in 1..Len(DepsOf(tasks, enf.result[i].id)) :
              HasId(enf.result, DepsOf(tasks, enf.result[i].id)[k])

--------------------------------------------------------------------------
(* Properties of the block date scheduler (SpecSched).                     *)

\* C3: every window the scheduler returns ends on or before the event date.
SchedEndNotAfterEvent ==
    sched.pc = "done" =>
        \A i \in 1..Len(sched.result) : sched.result[i].end_date <= eventDate

\* C4: every window the scheduler returns has start_date strictly before
\* end_date.
SchedWindowNonEmpty ==
    sched.pc = "done" =>
        \A i \in 1..Len(sched.result) :
            sched.result[i].start_date < sched.result[i].end_date

\* a second block was pulled to the end of the first, for an event so close
\* that floor and ceiling both applied
SchedAllFixupsApplied ==
    /\ sched.pc = "done" /\ Len(sched.result) >= 2
    /\ eventDate >= today /\ eventDate - today <= 2
    /\ sched.result[1].start_date = today + 2
    /\ sched.result[2].start_date = sched.result[1].end_date
    /\ sched.result[2].end_date = sched.result[2].start_date + 1

\* C5: no window the scheduler returns starts before today.
SchedStartNotBeforeToday ==
    sched.pc = "done" =>
        \A i \in 1..Len(sched.result) : sched.result[i].start_date >= today

\* windows were returned for an event in the past and scale factor 0
SchedPastEventScheduled ==
    /\ sched.pc = "done" /\ Len(sched.result) >= 1
    /\ eventDate < today /\ sched.scaleFactor.num = 0

\* C6: each window the scheduler returns starts on or after the end of the
\* window returned before it.
SchedMonotone ==
    sched.pc = "done" =>
        \A i \in 2..Len(sched.result) :
            sched.result[i].start_date >= sched.result[i - 1].end_date

\* the window of a months-out block follows that of a 2-weeks block listed
\* before it, with an unresolvable block between the two
SchedPulledAcrossSkipped ==
    /\ sched.pc = "done" /\ Len(blocks) = 3 /\ Len(sched.result) = 2
    /\ blocks[1].key = <<"2", "w">>
    /\ blocks[2].key = <<"9", "9", "x">>
    /\ blocks[3].key = <<"1", "2", "m">>
    /\ sched.scaleFactor.num >= 12 /\ eventDate - today > 300
    /\ sched.result[2].id = 3
    /\ sched.result[2].start_date = sched.result[1].end_date

--------------------------------------------------------------------------
(* Properties of the handler.                                              *)

Succeeded(r) == runs[r].pc = "done" /\ runs[r].status = 200

\* task a lists task b in its depends_on_task_ids
DependsOn(ts, a, b) ==
    \E k \in 1..Len(ts[a].depends_on_task_ids) :
        ts[a].depends_on_task_ids[k] = ts[b].id

\* b is reached from a along at most n dependency edges
RECURSIVE Reaches(_, _, _, _)
Reaches(ts, a, b, n) ==
    /\ n > 0
    /\ \/ DependsOn(ts, a, b)
       \/ \E c \in 1..Len(ts) : DependsOn(ts, a, c) /\ Reaches(ts, c, b, n - 1)

Acyclic(ts) == \A a \in 1..Len(ts) : ~Reaches(ts, a, a, Len(ts))

\* C2: after a run with respectLocks, every task that was locked and dated
\* has its former due date in the returned list and in the store.
LockedDatesPreserved ==
    \A r \in DOMAIN runs :
        (Succeeded(r) /\ runs[r].respectLocks) =>
            \A i \in 1..Len(tasks) :
                (hist.tasks0[i].locked /\ hist.tasks0[i].due_date # NoDate) =>
                    /\ tasks[i].due_date = hist.tasks0[i].due_date
                    /\ \A k \in 1..Len(runs[r].allTaskUpdates) :
                          runs[r].allTaskUpdates[k].id = tasks[i].id =>
                              runs[r].allTaskUpdates[k].due_date
                                  = hist.tasks0[i].due_date

\* C7: after a successful run on an acyclic graph, every stored task is due
\* strictly later than each of its dependencies, whatever block or lock
\* the two have (both being dated).
StoredDepsOrdered ==
    \A r \in DOMAIN runs :
        (Succeeded(r) /\ Acyclic(tasks)) =>
            \A a, b \in 1..Len(tasks) :
                (/\ DependsOn(tasks, a, b)
                 /\ tasks[a].due_date # NoDate
                 /\ tasks[b].due_date # NoDate) =>
                    tasks[a].due_date > tasks[b].due_date

\* C8: after a run with respectLocks, every task that was done and dated
\* has its former due date in the store.
DoneDatesPreserved ==
    \A r \in DOMAIN runs :
        (Succeeded(r) /\ runs[r].respectLocks) =>
            \A i \in 1..Len(tasks) :
                (hist.tasks0[i].done /\ hist.tasks0[i].due_date # NoDate) =>
                    tasks[i].due_date = hist.tasks0[i].due_date

\* C9: on a timeline whose tasks are all locked and dated, two runs with
\* the same options and respectLocks return the same block windows and
\* leave every due date as it was before the runs.
TwiceLockedUnchanged ==
    (/\ \A r \in DOMAIN runs : Succeeded(r) /\ runs[r].respectLocks
     /\ \A r, q \in DOMAIN runs : runs[r].distribution = runs[q].distribution
     /\ \A i \in 1..Len(tasks) :
           hist.tasks0[i].locked /\ hist.tasks0[i].due_date # NoDate) =>
        /\ \A r, q \in DOMAIN runs :
              runs[r].recalculatedBlocks = runs[q].recalculatedBlocks
        /\ \A i \in 1..Len(tasks) :
              tasks[i].due_date = hist.tasks0[i].due_date

StoreUntouched ==
    /\ blocks = hist.blocks0
    /\ tasks = hist.tasks0
    /\ timeline = hist.timeline0
    /\ audit = <<>>

\* C10: a failed or empty timeline fetch answers 404, a failed blocks or
\* tasks fetch answers 500, and a run that ends so has updated no row and
\* inserted no audit entry; a run reads nothing after its first write.
LoadFailureWritesNothing ==
    /\ [](\A r \in DOMAIN runs :
            (runs[r].pc = "done" /\ runs[r].status \in {404, 500}) =>
                StoreUntouched)
    /\ [][\A r \in DOMAIN runs :
            /\ (runs[r].pc = "fetchTimeline" /\ runs'[r].pc = "done") =>
                   runs'[r].status = 404
            /\ (runs[r].pc \in {"fetchBlocks", "fetchTasks"}
                   /\ runs'[r].pc = "done") => runs'[r].status = 500
            /\ (runs[r].pc \in {"fetchTimeline", "fetchBlocks", "fetchTasks"}) =>
                   StoreUntouched'
            /\ (runs[r].pc \in {"writeBlocks", "writeTasks", "writeTimeline",
                                 "insertAudit"}) =>
                   runs'[r].pc \notin {"fetchTimeline", "fetchBlocks",
                                       "fetchTasks"}]_vars

\* a run ended with 500 because its tasks fetch failed
TasksLoadFailed ==
    \E r \in DOMAIN runs :
        /\ runs[r].pc = "done" /\ runs[r].status = 500
        /\ "blocks" \in DOMAIN runs[r]
        /\ hist.faults = 1

\* C11: a request whose path names no timeline id (the last path part is
\* empty or is the function's own name) is answered with status 400.
MissingIdAnswered400 ==
    \A r \in DOMAIN runs :
        (/\ runs[r].pc = "done"
         /\ "timelineId" \in DOMAIN runs[r]
         /\ runs[r].timelineId = FunctionPath[Len(FunctionPath)]) =>
            runs[r].status = 400

\* no offsets: neither the table nor the fallback pattern matches the key
Unresolvable(key) == getCanonicalOffsets(key) = <<>>

\* the blocks whose key resolves, in their order
ResolvableBlocks(bs) ==
    LET Resolves(b) == ~Unresolvable(b.key) IN SelectSeq(bs, Resolves)

\* C12: after a successful run, a block whose key does not resolve is not
\* in the returned blocks, its stored row and the stored due dates of its
\* tasks are as before the run, and the returned blocks are those the
\* scheduler returns for the list without the unresolvable blocks.
SkippedBlockUntouched ==
    \A r \in DOMAIN runs :
        Succeeded(r) =>
            /\ \A i \in 1..Len(blocks) :
                  Unresolvable(blocks[i].key) =>
                      /\ \A k \in 1..Len(runs[r].recalculatedBlocks) :
                            runs[r].recalculatedBlocks[k].id # blocks[i].id
                      /\ blocks[i] = hist.blocks0[i]
                      /\ \A j \in 1..Len(tasks) :
                            tasks[j].block_id = blocks[i].id =>
                                tasks[j].due_date = hist.tasks0[j].due_date
            /\ runs[r].recalculatedBlocks
                   = recalculateBlockDates(runs[r].eventDate,
                                           ResolvableBlocks(hist.blocks0),
                                           runs[r].scaleFactor, runs[r].today)

\* a run succeeded on a timeline whose second block does not resolve and
\* holds a dated task, and moved a task of the first block
SkippedBlockWithTasks ==
    \E r \in DOMAIN runs :
        /\ Succeeded(r)
        /\ Len(blocks) = 2 /\ Unresolvable(blocks[2].key)
        /\ Len(runs[r].recalculatedBlocks) = 1
        /\ tasks[2].block_id = 2 /\ tasks[2].due_date # NoDate
        /\ tasks[1].block_id = 1
        /\ tasks[1].due_date # hist.tasks0[1].due_date

\* the phases of a run after loading, in the order of the code
PersistRank(pc) ==
    IF pc = "writeBlocks" THEN 1
    ELSE IF pc = "writeTasks" THEN 2
    ELSE IF pc = "writeTimeline" THEN 3
    ELSE IF pc = "insertAudit" THEN 4
    ELSE IF pc = "done" THEN 5
    ELSE 0

Persisting(r) == PersistRank(runs[r].pc) \in 1..4

\* C13: whether or not a store call fails, a persisting run keeps its
\* computed result, moves only forward through block updates, task updates,
\* timeline update and audit insert, and ends only after the audit insert
\* and with status 200; a failed call changes no row (nothing is rolled
\* back); a run that succeeded has issued every block and task update.
BestEffortPersistence ==
    /\ [][\A r \in DOMAIN runs :
            (Persisting(r) /\ runs'[r] # runs[r]) =>
                /\ runs'[r].recalculatedBlocks = runs[r].recalculatedBlocks
                /\ runs'[r].allTaskUpdates = runs[r].allTaskUpdates
                /\ PersistRank(runs'[r].pc) >= PersistRank(runs[r].pc)
                /\ runs'[r].b - runs[r].b \in {0, 1}
                /\ runs'[r].t - runs[r].t \in {0, 1}
                /\ runs[r].pc = "writeBlocks" => runs'[r].b = runs[r].b + 1
                /\ runs[r].pc = "writeTasks" => runs'[r].t = runs[r].t + 1
                /\ runs[r].pc = "writeTimeline" => runs'[r].pc = "insertAudit"
                /\ runs'[r].pc = "done" =>
                       runs[r].pc = "insertAudit" /\ runs'[r].status = 200
                /\ hist'.faults > hist.faults =>
                       /\ blocks' = blocks /\ tasks' = tasks
                       /\ timeline' = timeline /\ audit' = audit]_vars
    /\ [](\A r \in DOMAIN runs :
            Succeeded(r) =>
                /\ runs[r].b = Len(runs[r].recalculatedBlocks) + 1
                /\ runs[r].t = Len(runs[r].allTaskUpdates) + 1)

\* a run succeeded although its first block update failed: the block's row
\* is stale while the timeline update and the audit insert were applied
SucceededAfterFailedUpdate ==
    \E r \in DOMAIN runs :
        /\ Succeeded(r) /\ hist.faults = 1
        /\ Len(runs[r].recalculatedBlocks) >= 1
        /\ \E i \in 1..Len(blocks) :
              /\ blocks[i].id = runs[r].recalculatedBlocks[1].id
              /\ blocks[i].start_date = StaleStart
        /\ timeline.last_recalculated_at = runs[r].today
        /\ Len(audit) = 1

\* the audit entry carries the parameters of run r
AuditOf(entry, r) ==
    /\ entry.changes.distribution = runs[r].distribution
    /\ entry.changes.respect_locks = runs[r].respectLocks
    /\ entry.changes.lead_time_months = runs[r].leadTimeMonths
    /\ entry.changes.scale_factor = runs[r].scaleFactor

\* every block and task update of run r has been issued
UpdatesIssued(r) ==
    /\ runs[r].b = Len(runs[r].recalculatedBlocks) + 1
    /\ runs[r].t = Len(runs[r].allTaskUpdates) + 1

\* C14 as stated: a run that ended with success has appended exactly one
\* audit entry with its parameters, after its updates; a run that ended in
\* loading has appended none.
AuditOnePerRun ==
    \A r \in DOMAIN runs :
        runs[r].pc = "done" =>
            IF runs[r].status = 200
            THEN Len(audit) = 1 /\ AuditOf(audit[1], r) /\ UpdatesIssued(r)
            ELSE audit = <<>>

\* C14 as amended: a run that completed loading issues one audit insert,
\* after all of its updates and in the step that answers success; the insert
\* appends one entry with the run's parameters unless the insert itself
\* fails, and then none; nothing else appends, and a run that ended in
\* loading has appended none.
AuditOneInsertPerRun ==
    /\ [][\A r \in DOMAIN runs :
            (runs[r].pc = "insertAudit" /\ runs'[r] # runs[r]) =>
                /\ UpdatesIssued(r)
                /\ Succeeded(r)'
                /\ IF hist'.faults = hist.faults
                   THEN /\ Len(audit') = Len(audit) + 1
                        /\ SubSeq(audit', 1, Len(audit)) = audit
                        /\ AuditOf(audit'[Len(audit')], r)
                   ELSE audit' = audit]_vars
    /\ [][audit' # audit =>
            \E r \in DOMAIN runs :
                runs[r].pc = "insertAudit" /\ runs'[r] # runs[r]]_vars
    /\ [](\A r \in DOMAIN runs :
            (runs[r].pc = "done" /\ runs[r].status # 200) => audit = <<>>)
    /\ [](\A r \in DOMAIN runs :
            runs[r].pc # "done" => audit = <<>>)

\* a run that asked for respectLocks = false succeeded and left its entry
\* although one of its updates had failed
AuditedAfterFailedUpdate ==
    \E r \in DOMAIN runs :
        /\ Succeeded(r) /\ hist.faults = 1 /\ ~runs[r].respectLocks
        /\ Len(audit) = 1 /\ AuditOf(audit[1], r)

\* a blocks row and a tasks row without the fields a run may write
BlockFrame(b) == [b EXCEPT !.start_date = NoDate, !.end_date = NoDate]
TaskFrame(t) == [t EXCEPT !.due_date = NoDate]

\* C15: at every point of a run the store holds the same block and task
\* rows as before it, equal to them in every field but start_date, end_date
\* and due_date, and the timeline row has no field but scale_factor and
\* last_recalculated_at.
FrameOfRecalculate ==
    /\ Len(blocks) = Len(hist.blocks0)
    /\ Len(tasks) = Len(hist.tasks0)
    /\ \A i \in 1..Len(blocks) :
          BlockFrame(blocks[i]) = BlockFrame(hist.blocks0[i])
    /\ \A i \in 1..Len(tasks) :
          TaskFrame(tasks[i]) = TaskFrame(hist.tasks0[i])
    /\ DOMAIN timeline = {"scale_factor", "last_recalculated_at"}

\* a run succeeded and changed the window of a block and the due date of a
\* locked task
FrameAfterWrites ==
    \E r \in DOMAIN runs :
        /\ Succeeded(r)
        /\ \E i \in 1..Len(blocks) : blocks[i] # hist.blocks0[i]
        /\ \E i \in 1..Len(tasks) :
              tasks[i].locked /\ tasks[i].due_date # hist.tasks0[i].due_date
        /\ timeline # hist.timeline0

\* C16: enforceDependencies never makes more than 100 passes, returns only
\* after a pass without a change or after the 100th pass, and returns one
\* pair for every pair it was given, in the same order and never earlier
\* than proposed.
EnfWithinCap ==
    /\ enf.iterations <= 100
    /\ enf.pc = "done" =>
          /\ ~enf.changed \/ enf.iterations = 100
          /\ Len(enf.result) = Len(enf.tasks)
          /\ \A i \in 1..Len(enf.tasks) :
                /\ enf.result[i].id = enf.tasks[i].id
                /\ enf.result[i].due_date >= enf.tasks[i].due_date

\* a call on a dependency cycle returned after the 100th pass, which still
\* changed a date
EnfCapHit ==
    /\ enf.pc = "done" /\ enf.changed /\ enf.iterations = 100
    /\ Len(enf.result) = Cardinality(EnfIds)
    /\ ~Acyclic(tasks)

--------------------------------------------------------------------------
(* Properties of the lead-time calculator (SpecScale).                     *)

\* C17: lead_time_months is the least m >= 0 with 30 * m >= days_between,
\* which is max(ceil(days_between / 30), 0); scale_factor is that m over
\* 12; both are 0 for an event on or before today.
LeadTimeFormula ==
    sched.pc = "scaled" =>
        /\ sched.leadTimeMonths >= 0
        /\ 30 * sched.leadTimeMonths >= eventDate - today
        /\ sched.leadTimeMonths > 0 =>
               30 * (sched.leadTimeMonths - 1) < eventDate - today
        /\ sched.scaleFactor.num = sched.leadTimeMonths
        /\ sched.scaleFactor.den = 12
        /\ eventDate <= today =>
               sched.leadTimeMonths = 0 /\ sched.scaleFactor.num = 0

\* the calculator was called for an event before today and for one 31 days
\* ahead, which counts as 2 months
LeadTimeOfPastEvent ==
    /\ sched.pc = "scaled"
    /\ \/ eventDate < today /\ sched.leadTimeMonths = 0
       \/ eventDate - today = 31 /\ sched.leadTimeMonths = 2
    /\ eventDate - today \in {0 - MaxBack, 31}

\* the date n months before a date: the same day of the month, running
\* into the next month where that month is shorter
MonthsBefore(date, n) ==
    LET c == CivilFromDays(date) IN MakeDay(c.year, c.month - n, c.date)

\* lead time 6, scale factor 6/12 and the raw window of block "6-8m" from
\* 4 months to 3 months before the event
SixMonthScaling ==
    /\ sched.leadTimeMonths = 6
    /\ sched.scaleFactor = [num |-> 6, den |-> 12]
    /\ sched.rawStart = MonthsBefore(eventDate, 4)
    /\ sched.rawEnd = MonthsBefore(eventDate, 3)

\* C18 as stated: an event 180 to 184 days from today has lead time 6 and
\* scale factor 0.5, and block "6-8m" gets the raw window from 4 months to
\* 3 months before the event.
SixMonthsAheadScaledByHalf ==
    (sched.pc = "scaled" /\ eventDate - today \in 180..184) => SixMonthScaling

\* C18 as amended: that holds for an event 151 to 180 days from today; an
\* event 181 to 184 days from today has lead time 7 and scale factor 7/12.
HalfYearScaledByHalf ==
    sched.pc = "scaled" =>
        /\ eventDate - today \in 151..180 => SixMonthScaling
        /\ eventDate - today \in 181..184 =>
               /\ sched.leadTimeMonths = 7
               /\ sched.scaleFactor = [num |-> 7, den |-> 12]

\* an event on the 31st, 180 days ahead: 4 months before it is the 31st of
\* a month of 30 days, which is the 1st of the month after
HalfYearFromThe31st ==
    /\ sched.pc = "scaled" /\ eventDate - today = 180
    /\ CivilFromDays(eventDate).date = 31
    /\ CivilFromDays(sched.rawStart).date = 1
    /\ sched.leadTimeMonths = 6

--------------------------------------------------------------------------
(* Properties of the canonical block resolver (SpecSched).                 *)

\* C19: the offsets of every block key that resolves satisfy start > end
\* and end >= 0.
ResolvedOffsetsOrdered ==
    sched.pc = "done" =>
        \A i \in 1..Len(blocks) :
            ~Unresolvable(blocks[i].key) =>
                /\ getCanonicalOffsets(blocks[i].key)[1].start
                       > getCanonicalOffsets(blocks[i].key)[1].end
                /\ getCanonicalOffsets(blocks[i].key)[1].end >= 0

--------------------------------------------------------------------------
(* Properties of interleaved runs (SpecRace).                              *)

\* run r takes the step
Acts(r) == runs'[r] # runs[r]

\* C20: with two runs interleaved in any order, an update sets the row's
\* fields to the issuing run's values and changes nothing else, no stored
\* field changes but by an update of it (so a field holds what the run that
\* wrote it last wrote), every run that loaded the timeline ends with
\* success, and when both have ended there is one audit entry for each run
\* that succeeded.
LastWriteWins ==
    /\ [][\A r \in DOMAIN runs :
            /\ (runs[r].pc = "writeBlocks" /\ Acts(r)) =>
                  /\ \A i \in 1..Len(blocks) :
                        IF blocks[i].id = runs[r].recalculatedBlocks[runs[r].b].id
                        THEN /\ blocks'[i].start_date
                                  = runs[r].recalculatedBlocks[runs[r].b].start_date
                             /\ blocks'[i].end_date
                                  = runs[r].recalculatedBlocks[runs[r].b].end_date
                        ELSE blocks'[i] = blocks[i]
                  /\ tasks' = tasks /\ timeline' = timeline
            /\ (runs[r].pc = "writeTasks" /\ Acts(r)) =>
                  /\ \A i \in 1..Len(tasks) :
                        IF tasks[i].id = runs[r].allTaskUpdates[runs[r].t].id
                        THEN tasks'[i].due_date
                                 = runs[r].allTaskUpdates[runs[r].t].due_date
                        ELSE tasks'[i] = tasks[i]
                  /\ blocks' = blocks /\ timeline' = timeline
            /\ (runs[r].pc = "writeTimeline" /\ Acts(r)) =>
                  /\ timeline'.scale_factor = runs[r].scaleFactor
                  /\ blocks' = blocks /\ tasks' = tasks]_vars
    /\ [][(blocks' # blocks \/ tasks' # tasks \/ timeline' # timeline) =>
            \E r \in DOMAIN runs :
                /\ Acts(r)
                /\ runs[r].pc \in {"writeBlocks", "writeTasks", "writeTimeline"}]_vars
    /\ [](\A r \in DOMAIN runs :
            (runs[r].pc = "done" /\ runs[r].status # 200) =>
                ("timelineId" \in DOMAIN runs[r] => runs[r].timelineId # TimelineId))
    /\ []((\A r \in DOMAIN runs : runs[r].pc = "done") =>
            Len(audit) = Cardinality({r \in DOMAIN runs : Succeeded(r)}))

\* both runs succeeded and each was the last to write one of the two tasks,
\* for which the two had computed different due dates
RaceMixedResult ==
    /\ \A r \in DOMAIN runs : Succeeded(r)
    /\ Len(audit) = 2
    /\ \A r \in DOMAIN runs : \A i \in 1..2 : HasId(runs[r].allTaskUpdates, i)
    /\ \A i \in 1..2 :
          DueIn(runs[1].allTaskUpdates, i) # DueIn(runs[2].allTaskUpdates, i)
    /\ tasks[1].due_date = DueIn(runs[1].allTaskUpdates, 1)
    /\ tasks[2].due_date = DueIn(runs[2].allTaskUpdates, 2)

--------------------------------------------------------------------------
(* SpecDist: distributeTasksInBlock called on its own, for a block window  *)
(* of 0 to MaxWindow days and any short list of tasks, skeleton or not,    *)
(* unlocked, locked with a due date or locked without one, of equal        *)
(* weights or of weights that grow with the id.                            *)

MaxTasks  == 3
MaxWindow == 6

\* a due date stored before the window
StoredDue == Today0 - 5

\* a tasks row of the block with its weight
WeightedRow(i, skeleton, locked, dueDate, weight) ==
    [TaskRow(i, 1, locked, FALSE, skeleton, dueDate, <<>>) EXCEPT !.weight = weight]

DistInit ==
    /\ \E n \in 0..MaxTasks :
       \E skeleton \in [1..n -> BOOLEAN] :
       \E locked \in [1..n -> BOOLEAN] :
       \E due \in [1..n -> {NoDate, StoredDue}] :
       \E growing \in BOOLEAN :
          tasks = [i \in 1..n |->
                      WeightedRow(i, skeleton[i], locked[i], due[i],
                                  IF growing THEN i ELSE 1)]
    /\ \E len \in 0..MaxWindow :
       \E distribution \in Distributions :
       \E respectLocks \in BOOLEAN :
          sched = [pc |-> "undistributed", distribution |-> distribution,
                   respectLocks |-> respectLocks, blockStartDate |-> Today0,
                   blockEndDate |-> Today0 + len, result |-> <<>>]
    /\ today = Today0
    /\ eventDate = Today0 + MaxWindow
    /\ blocks = <<>>
    /\ timeline = NoTimeline
    /\ audit = <<>>
    /\ view = NoView
    /\ runs = NoRuns
    /\ enf = NoEnf
    /\ hist = NoHist

DistCall ==
    /\ sched.pc = "undistributed"
    /\ sched' = [sched EXCEPT
                   !.pc = "distributed",
                   !.result = distributeTasksInBlock(tasks, sched.blockStartDate,
                                                     sched.blockEndDate,
                                                     sched.distribution,
                                                     sched.respectLocks)]
    /\ UNCHANGED <<today, eventDate, blocks, tasks, timeline, audit, runs, enf, hist,
                   view>>

DistNext == DistCall

SpecDist == DistInit /\ [][DistNext]_vars

\* the tasks the distributor computes a date for
Spread(i) == ~sched.respectLocks \/ ~tasks[i].locked

\* C21: under frontload, in every block window and for every list of tasks,
\* the due date assigned to a skeleton task is on or before the due date
\* assigned to every non-skeleton task of the block.
SkeletonTasksFrontLoaded ==
    sched.pc = "distributed" /\ sched.distribution = "frontload" =>
        \A i, j \in 1..Len(tasks) :
            /\ Spread(i) /\ Spread(j)
            /\ tasks[i].is_skeleton /\ ~tasks[j].is_skeleton
            => DueIn(sched.result, i) <= DueIn(sched.result, j)

\* a skeleton task listed after a task that is not one, and due before it
SkeletonMovedAhead ==
    /\ sched.pc = "distributed" /\ sched.distribution = "frontload"
    /\ \E i, j \in 1..Len(tasks) :
          /\ j < i
          /\ Spread(i) /\ Spread(j)
          /\ tasks[i].is_skeleton /\ ~tasks[j].is_skeleton
          /\ DueIn(sched.result, i) < DueIn(sched.result, j)

\* the number of pairs returned for an id
PairsOf(pairs, id) == Cardinality({k \in 1..Len(pairs) : pairs[k].id = id})

\* C25: distributeTasksInBlock returns exactly one pair for each unlocked task
\* and for each locked task that has a due date, none for a locked task
\* without one, and no id twice; without respectLocks every task of the
\* block gets one computed pair.
DistributionComplete ==
    sched.pc = "distributed" =>
        \A i \in 1..Len(tasks) :
            /\ PairsOf(sched.result, i)
                 = IF Spread(i) \/ tasks[i].due_date # NoDate THEN 1 ELSE 0
            /\ Spread(i) =>
                  /\ DueIn(sched.result, i) >= sched.blockStartDate
                  /\ DueIn(sched.result, i) <= Max(sched.blockEndDate,
                                                   sched.blockStartDate)

\* locks respected for an unlocked task, a locked task with a due date and
\* a locked task without one: two pairs come back
DistributedAroundLocks ==
    /\ sched.pc = "distributed" /\ sched.respectLocks
    /\ Len(sched.result) = 2
    /\ \E i, j, k \in 1..Len(tasks) :
          /\ ~tasks[i].locked
          /\ tasks[j].locked /\ tasks[j].due_date # NoDate
          /\ tasks[k].locked /\ tasks[k].due_date = NoDate

--------------------------------------------------------------------------
(* Properties of single passes and of the fixed point (SpecEnf).           *)

\* the task map when the i-th task of the pass that starts here is reached
MapBeforeTask(i) ==
    EnforceTasks([taskMap |-> enf.taskMap, changed |-> FALSE],
                 SubSeq(enf.tasks, 1, i - 1), tasks, 1).taskMap

\* the due dates in a map of the listed dependencies that have one
KnownDates(taskMap, deps) ==
    {taskMap[deps[k]] : k \in {h \in 1..Len(deps) : deps[h] \in DOMAIN taskMap}}

\* C22: in each pass, a task whose due date is earlier than min_allowed, one
\* day after the latest due date among its dependencies with a known due
\* date, has the due date min_allowed once the pass has processed it,
\* whatever the order of the dependency ids.
EnfPassRaisesToMax ==
    (enf.pc = "loop" /\ enf.changed /\ enf.iterations < maxIterations) =>
        \A i \in 1..Len(enf.tasks) :
            LET id     == enf.tasks[i].id
                before == MapBeforeTask(i)
                known  == KnownDates(before, DepsOf(tasks, id))
            IN  (known # {} /\ before[id] < Greatest(known) + 1)
                => MapBeforeTask(i + 1)[id] = Greatest(known) + 1

\* C23: at the end of every pass each due date is on or after the proposed
\* one, and a task without dependencies, or whose dependencies all lack a
\* known due date, is returned with exactly its proposed due date.
EnfOnlyForward ==
    \A i \in 1..Len(enf.tasks) :
        /\ enf.taskMap[enf.tasks[i].id] >= enf.tasks[i].due_date
        /\ (/\ enf.pc = "done"
            /\ KnownDates(enf.taskMap, DepsOf(tasks, enf.tasks[i].id)) = {})
           => enf.result[i].due_date = enf.tasks[i].due_date

\* a call that raised one task and returned another, whose only
\* dependencies have no known due date, as proposed
EnfKeptUndependent ==
    /\ enf.pc = "done"
    /\ \E i, j \in 1..Len(enf.tasks) :
          /\ enf.result[i].due_date > enf.tasks[i].due_date
          /\ DepsOf(tasks, enf.tasks[j].id) # <<>>
          /\ KnownDates(enf.taskMap, DepsOf(tasks, enf.tasks[j].id)) = {}
          /\ enf.result[j].due_date = enf.tasks[j].due_date

\* the rows of the tasks that have a proposed due date
DatedRows == SubSeq(tasks, 1, Len(enf.tasks))

\* C24: enforceDependencies stops at the cap of 100 passes with its last
\* pass still changing a date exactly when the dependency graph restricted
\* to the tasks with a known due date has a cycle, a self-dependency
\* included; on an acyclic graph it stops on a pass that changed nothing.
EnfCapOnlyOnCycles ==
    enf.pc = "done" =>
        /\ (enf.changed /\ enf.iterations = 100) <=> ~Acyclic(DatedRows)
        /\ Acyclic(DatedRows) => ~enf.changed /\ enf.iterations < 100

\* a call that converged although a cycle runs through a task without a
\* known due date, after a pass that raised a date
EnfCycleThroughUndated ==
    /\ enf.pc = "done" /\ ~enf.changed /\ enf.iterations > 1
    /\ ~Acyclic(tasks) /\ Acyclic(DatedRows)

\* the dependency lists and the proposed pairs in reverse order
ReversedSeq(s) == [i \in 1..Len(s) |-> s[Len(s) + 1 - i]]

ReversedDeps(ts) ==
    [i \in 1..Len(ts) |->
        [ts[i] EXCEPT !.depends_on_task_ids = ReversedSeq(@)]]

PairSet(pairs) == {pairs[i] : i \in 1..Len(pairs)}

\* C26: whenever enforceDependencies converges, each final due date is the
\* later of the proposed due date and one day after the latest final due
\* date among the dependencies with a known due date, and the result is the
\* same for the tasks and the dependency ids in reverse order.
EnfMinimalAdjustment ==
    (enf.pc = "done" /\ ~enf.changed) =>
        /\ \A i \in 1..Len(enf.tasks) :
              LET known == KnownDates(enf.taskMap,
                                      DepsOf(tasks, enf.tasks[i].id))
              IN  enf.result[i].due_date
                    = IF known = {} THEN enf.tasks[i].due_date
                      ELSE Max(enf.tasks[i].due_date, Greatest(known) + 1)
        /\ PairSet(enforceDependencies(ReversedSeq(enf.tasks),
                                       ReversedDeps(tasks)))
             = PairSet(enf.result)

\* a converged call that raised a task with two dated dependencies, the
\* later one listed first, in a pass after the first
EnfRaisedByLaterDependency ==
    /\ enf.pc = "done" /\ ~enf.changed /\ enf.iterations > 2
    /\ \E i \in 1..Len(enf.tasks) :
          LET deps == DepsOf(tasks, enf.tasks[i].id)
          IN  /\ Len(deps) = 2
              /\ HasId(enf.result, deps[1]) /\ HasId(enf.result, deps[2])
              /\ DueIn(enf.result, deps[1]) > DueIn(enf.result, deps[2])
              /\ enf.result[i].due_date = DueIn(enf.result, deps[1]) + 1
              /\ enf.result[i].due_date > enf.tasks[i].due_date

--------------------------------------------------------------------------
(* Final due dates and block windows (SpecPlan).                           *)

\* the tasks C27 is about: unlocked, in a block the run scheduled
PlacedBy(r, i) ==
    /\ ~hist.tasks0[i].locked
    /\ HasId(runs[r].recalculatedBlocks, tasks[i].block_id)

\* C27 as claimed: after a successful run, every unlocked task of a
\* scheduled block has a final due date within its own block's window.
FinalDueInsideWindow ==
    \A r \in DOMAIN runs :
        Succeeded(r) =>
            \A i \in 1..Len(tasks) :
                PlacedBy(r, i) =>
                    /\ tasks[i].due_date >= blocks[tasks[i].block_id].start_date
                    /\ tasks[i].due_date <= blocks[tasks[i].block_id].end_date

\* C27 amended: after a successful run, every unlocked task of a scheduled
\* block has a final due date on or after its own block's start, so not
\* before today, and on or before the block's end when none of its
\* dependencies has a known due date; a task that dependency enforcement
\* raised may be due after the block's end.
FinalDueNotBeforeWindow ==
    \A r \in DOMAIN runs :
        Succeeded(r) =>
            \A i \in 1..Len(tasks) :
                PlacedBy(r, i) =>
                    /\ tasks[i].due_date >= blocks[tasks[i].block_id].start_date
                    /\ tasks[i].due_date >= runs[r].today
                    /\ (\A k \in 1..Len(tasks[i].depends_on_task_ids) :
                           ~HasId(runs[r].allTaskUpdates,
                                  tasks[i].depends_on_task_ids[k]))
                       => tasks[i].due_date <= blocks[tasks[i].block_id].end_date

\* a successful run on an acyclic graph left an unlocked task after its
\* block's end, one day after a dependency in a later block
RaisedPastBlockEnd ==
    \E r \in DOMAIN runs :
        /\ Succeeded(r) /\ Acyclic(tasks)
        /\ \E i, j \in 1..Len(tasks) :
              /\ PlacedBy(r, i)
              /\ DependsOn(tasks, i, j)
              /\ tasks[j].block_id > tasks[i].block_id
              /\ tasks[i].due_date = tasks[j].due_date + 1
              /\ tasks[i].due_date > blocks[tasks[i].block_id].end_date

--------------------------------------------------------------------------
(* Two interleaved runs against the two serial orders (SpecRace).          *)

\* the store's rows once every update of a list has been applied
WithBlockUpdates(bs, updates) ==
    [i \in 1..Len(bs) |->
        IF HasId(updates, bs[i].id)
        THEN [bs[i] EXCEPT
                !.start_date = updates[CHOOSE k \in 1..Len(updates) :
                                           updates[k].id = bs[i].id].start_date,
                !.end_date = updates[CHOOSE k \in 1..Len(updates) :
                                         updates[k].id = bs[i].id].end_date]
        ELSE bs[i]]

WithTaskUpdates(ts, updates) ==
    [i \in 1..Len(ts) |->
        IF HasId(updates, ts[i].id)
        THEN [ts[i] EXCEPT !.due_date = DueIn(updates, ts[i].id)]
        ELSE ts[i]]

\* what a run with the options of run r plans on a store
PlanOn(r, bs, ts) == PlanRun([runs[r] EXCEPT !.blocks = bs], ts)

\* the store after the run of r alone, every update applied
StoreAfter(r, store) ==
    LET plan == PlanOn(r, store.blocks, store.tasks)
    IN  [blocks |-> WithBlockUpdates(store.blocks, plan.recalculatedBlocks),
         tasks  |-> WithTaskUpdates(store.tasks, plan.allTaskUpdates)]

\* the store after the run of a and then the run of b
SerialStore(a, b) ==
    StoreAfter(b, StoreAfter(a, [blocks |-> hist.blocks0, tasks |-> hist.tasks0]))

\* C28 as claimed: when two interleaved runs have both finished, the stored
\* block windows and due dates are those of the two runs made one after the
\* other, in one of the two orders.
RaceSerializable ==
    (\A r \in DOMAIN runs : Succeeded(r)) =>
        \/ [blocks |-> blocks, tasks |-> tasks] = SerialStore(1, 2)
        \/ [blocks |-> blocks, tasks |-> tasks] = SerialStore(2, 1)

\* C28 amended: when two interleaved runs have both finished, each stored
\* block window and each stored due date is the value one of the two runs
\* computed for that record, and a record neither run updated is as it was;
\* the combination need not be that of a serial order.
RacePerRecord ==
    (\A r \in DOMAIN runs : Succeeded(r)) =>
        /\ \A i \in 1..Len(tasks) :
              \/ \E r \in DOMAIN runs :
                    /\ HasId(runs[r].allTaskUpdates, tasks[i].id)
                    /\ tasks[i] = [hist.tasks0[i] EXCEPT !.due_date =
                                      DueIn(runs[r].allTaskUpdates, tasks[i].id)]
              \/ /\ \A r \in DOMAIN runs :
                       ~HasId(runs[r].allTaskUpdates, tasks[i].id)
                 /\ tasks[i] = hist.tasks0[i]
        /\ \A i \in 1..Len(blocks) :
              \/ \E r \in DOMAIN runs :
                    /\ HasId(runs[r].recalculatedBlocks, blocks[i].id)
                    /\ WithBlockUpdates(<<hist.blocks0[i]>>,
                                        runs[r].recalculatedBlocks)[1] = blocks[i]
              \/ /\ \A r \in DOMAIN runs :
                       ~HasId(runs[r].recalculatedBlocks, blocks[i].id)
                 /\ blocks[i] = hist.blocks0[i]

\* both runs succeeded and the stored due dates are those of neither serial
\* order
RaceNotSerial ==
    /\ \A r \in DOMAIN runs : Succeeded(r)
    /\ Cardinality(DOMAIN runs) = 2
    /\ tasks # SerialStore(1, 2).tasks
    /\ tasks # SerialStore(2, 1).tasks

--------------------------------------------------------------------------
(* SpecKey: getCanonicalOffsets called on its own, for every key that      *)
(* spells one number or a range of two numbers up to MaxNum and a unit of  *)
(* months or weeks, in lower or upper case.                                *)

MaxNum == 12

\* the decimal digits of a number below 100
NumChars(n) ==
    IF n < 10 THEN <<Digits[n + 1]>>
    ELSE <<Digits[(n \div 10) + 1], Digits[(n % 10) + 1]>>

\* the key "<a>-<b><unit>", or "<a><unit>" when b is 0
SpelledKey(a, b, unit) ==
    IF b = 0 THEN NumChars(a) \o <<unit>>
    ELSE NumChars(a) \o <<"-">> \o NumChars(b) \o <<unit>>

KeyInit ==
    /\ \E a \in 1..MaxNum, b \in 0..MaxNum, unit \in {"m", "w", "M", "W"} :
          /\ blocks = <<BlockRow(1, SpelledKey(a, b, unit))>>
          /\ sched = [pc |-> "unresolved", a |-> a,
                      b |-> IF b = 0 THEN a ELSE b,
                      unit |-> LowerChar(unit), offsets |-> <<>>]
    /\ today = Today0
    /\ eventDate = Today0
    /\ tasks = <<>>
    /\ timeline = NoTimeline
    /\ audit = <<>>
    /\ view = NoView
    /\ runs = NoRuns
    /\ enf = NoEnf
    /\ hist = NoHist

KeyCall ==
    /\ sched.pc = "unresolved"
    /\ sched' = [sched EXCEPT !.pc = "resolved",
                              !.offsets = getCanonicalOffsets(blocks[1].key)]
    /\ UNCHANGED <<today, eventDate, blocks, tasks, timeline, audit, runs, enf, hist,
                   view>>

KeyNext == KeyCall

SpecKey == KeyInit /\ [][KeyNext]_vars

\* the range a key spells out, in quarters of a month: the larger number
\* and the smaller one, weeks divided by 4
SpelledOffsets ==
    IF sched.unit = "m"
    THEN [start |-> 4 * Max(sched.a, sched.b), end |-> 4 * Min(sched.a, sched.b)]
    ELSE [start |-> Max(sched.a, sched.b), end |-> Min(sched.a, sched.b)]

\* the table entries whose key is the key or a part of it, letter case
\* aside
TableHits(blockKey) ==
    {k \in 1..Len(CANONICAL_BLOCKS) :
        Includes(toLowerCase(blockKey), CANONICAL_BLOCKS[k].key)}

\* C29 as claimed: a key that spells a range resolves to that range, the
\* table being used only for keys that are table keys themselves.
KeyResolvedAsSpelled ==
    sched.pc = "resolved" =>
        IF \E k \in 1..Len(CANONICAL_BLOCKS) :
               CANONICAL_BLOCKS[k].key = blocks[1].key
        THEN \E k \in 1..Len(CANONICAL_BLOCKS) :
                /\ CANONICAL_BLOCKS[k].key = blocks[1].key
                /\ sched.offsets = <<[start |-> CANONICAL_BLOCKS[k].start,
                                      end |-> CANONICAL_BLOCKS[k].end]>>
        ELSE sched.offsets = <<SpelledOffsets>>

\* C29 amended: a key that has a table key as a substring, letter case
\* aside, resolves to the offsets of the first such table entry, so "12w"
\* resolves to the offsets {0.5, 0} of "2w" and "11-12m" to the offsets
\* {12, 10} of "12m"; every other key that spells a range resolves to
\* start = the larger number and end = the smaller one, weeks divided by 4.
KeyResolvedByTableFirst ==
    sched.pc = "resolved" =>
        /\ \A k \in TableHits(blocks[1].key) :
              (\A h \in TableHits(blocks[1].key) : k <= h) =>
                  sched.offsets = <<[start |-> CANONICAL_BLOCKS[k].start,
                                     end |-> CANONICAL_BLOCKS[k].end]>>
        /\ TableHits(blocks[1].key) = {} => sched.offsets = <<SpelledOffsets>>
        /\ blocks[1].key = <<"1", "2", "w">> =>
              sched.offsets = <<[start |-> 2, end |-> 0]>>
        /\ blocks[1].key = <<"1", "1", "-", "1", "2", "m">> =>
              sched.offsets = <<[start |-> 48, end |-> 40]>>
        /\ blocks[1].key = <<"1", "0", "-", "7", "w">> =>
              sched.offsets = <<[start |-> 10, end |-> 7]>>

\* "12w" resolved to the offsets of the table entry "2w", not to 3 months
TwelveWeeksFromTable ==
    /\ sched.pc = "resolved"
    /\ blocks[1].key = <<"1", "2", "w">>
    /\ sched.offsets = <<[start |-> 2, end |-> 0]>>
    /\ SpelledOffsets = [start |-> 12, end |-> 12]

--------------------------------------------------------------------------
(* SpecToggle: the client page.  The tasks are loaded and displayed, and   *)
(* handleTaskToggle is called up to MaxToggles times, on any displayed     *)
(* task; a call may start while others wait for the store.  Each await of  *)
(* the handler is one step and either store call may fail.  done_at, a     *)
(* timestamp, is left out.                                                 *)

MaxToggles == 3

ToggleIds == 1..MaxToggles

ClientTaskIds == {1, 2}

Assignees == {"client", "js", "both"}

\* a tasks row as the client page uses it
ClientTask(i, assignee, done) ==
    [id |-> i, assignee |-> assignee, done |-> done,
     done_by |-> IF done THEN "admin" ELSE "null"]

\* the checkbox of a task is enabled
canToggle(task) == task.assignee = "client" \/ task.assignee = "both"

ToggleInit ==
    /\ \E assignee \in [ClientTaskIds -> Assignees] :
       \E done \in [ClientTaskIds -> BOOLEAN] :
          tasks = [i \in ClientTaskIds |-> ClientTask(i, assignee[i], done[i])]
    /\ view = tasks
    /\ runs = [h \in ToggleIds |-> [pc |-> "idle"]]
    /\ audit = <<>>
    /\ today = Today0
    /\ eventDate = Today0
    /\ blocks = <<>>
    /\ timeline = NoTimeline
    /\ sched = NoSched
    /\ enf = NoEnf
    /\ hist = NoHist

\* a handler that has no check of the assignee
handleTaskToggleUnguarded(h) ==
    /\ runs[h].pc = "idle"
    /\ \A q \in ToggleIds : q < h => runs[q].pc # "idle"
    /\ \E i \in 1..Len(view) :
          runs' = [runs EXCEPT ![h] =
                     [pc |-> "update", task |-> view[i], timeline |-> view,
                      error |-> "null"]]
    /\ UNCHANGED <<today, eventDate, blocks, tasks, timeline, audit, sched, enf,
                   hist, view>>

\* the call with a displayed task, up to the first await; task and timeline
\* are those of the render the handler was made in.  The calls are numbered
\* in the order they are made.
handleTaskToggle(h) ==
    /\ runs[h].pc = "idle"
    /\ \A q \in ToggleIds : q < h => runs[q].pc # "idle"
    /\ \E i \in 1..Len(view) :
          runs' = [runs EXCEPT ![h] =
                     IF view[i].assignee = "js"
                     THEN [pc |-> "returned", task |-> view[i]]
                     ELSE [pc |-> "update", task |-> view[i], timeline |-> view,
                           error |-> "null"]]
    /\ UNCHANGED <<today, eventDate, blocks, tasks, timeline, audit, sched, enf,
                   hist, view>>

\* from('tasks').update({done, done_at, done_by}).eq('id', task.id), and
\* the throw into the catch block on an error
ToggleUpdate(h) ==
    /\ runs[h].pc = "update"
    /\ \E ok \in BOOLEAN :
          /\ tasks' = IF ~ok THEN tasks
                      ELSE [i \in 1..Len(tasks) |->
                              IF tasks[i].id = runs[h].task.id
                              THEN [tasks[i] EXCEPT
                                      !.done = ~runs[h].task.done,
                                      !.done_by = IF ~runs[h].task.done
                                                  THEN "client" ELSE "null"]
                              ELSE tasks[i]]
          /\ runs' = [runs EXCEPT
                        ![h].pc = IF ok THEN "insert" ELSE "failed",
                        ![h].error = IF ok THEN "null" ELSE "error"]
    /\ UNCHANGED <<today, eventDate, blocks, timeline, audit, sched, enf, hist,
                   view>>

\* from('audit_entries').insert({...}); its result is not read
ToggleInsert(h) ==
    /\ runs[h].pc = "insert"
    /\ \E ok \in BOOLEAN :
          audit' = IF ~ok THEN audit
                   ELSE Append(audit,
                          [timeline_id |-> TimelineId,
                           task_id |-> runs[h].task.id,
                           action |-> IF ~runs[h].task.done THEN "check"
                                      ELSE "uncheck",
                           actor |-> "client",
                           changes |-> [done |-> [from |-> runs[h].task.done,
                                                  to |-> ~runs[h].task.done]]])
    /\ runs' = [runs EXCEPT ![h].pc = "setTimeline"]
    /\ UNCHANGED <<today, eventDate, blocks, tasks, timeline, sched, enf, hist,
                   view>>

\* setTimeline({...timeline, blocks: ...}) with the handler's own timeline
ToggleSet(h) ==
    /\ runs[h].pc = "setTimeline"
    /\ view' = [i \in 1..Len(runs[h].timeline) |->
                  IF runs[h].timeline[i].id = runs[h].task.id
                  THEN [runs[h].timeline[i] EXCEPT !.done = ~@]
                  ELSE runs[h].timeline[i]]
    /\ runs' = [runs EXCEPT ![h].pc = "done"]
    /\ UNCHANGED <<today, eventDate, blocks, tasks, timeline, audit, sched, enf,
                   hist>>

ToggleNext ==
    \/ \E h \in ToggleIds : handleTaskToggle(h)
    \/ \E h \in ToggleIds : ToggleUpdate(h)
    \/ \E h \in ToggleIds : ToggleInsert(h)
    \/ \E h \in ToggleIds : ToggleSet(h)

SpecToggle == ToggleInit /\ [][ToggleNext]_vars

\* the stored row of a task id
StoredTask(id) == tasks[CHOOSE i \in 1..Len(tasks) : tasks[i].id = id]

\* C30: in the client view no task update and no audit entry is issued for
\* a task whose assignee is 'js'; for a 'client' or 'both' task the audit
\* entry ('check' or 'uncheck', actor 'client') is inserted only after the
\* task update succeeded, and on an update error neither the audit log nor
\* the displayed done state changes.
ClientTogglesOwnTasks ==
    /\ [](\A h \in DOMAIN runs :
            runs[h].pc \in {"update", "insert", "setTimeline", "failed", "done"}
            => canToggle(runs[h].task))
    /\ [](\A k \in 1..Len(audit) :
            /\ canToggle(StoredTask(audit[k].task_id))
            /\ audit[k].actor = "client"
            /\ audit[k].action \in {"check", "uncheck"})
    /\ [][\A i \in 1..Len(tasks) :
            tasks[i].assignee = "js" => tasks'[i] = tasks[i]]_vars
    /\ [][audit' # audit =>
            \E h \in DOMAIN runs :
                /\ runs[h].pc = "insert" /\ Acts(h)
                /\ runs[h].error = "null"
                /\ Len(audit') = Len(audit) + 1
                /\ audit'[Len(audit')].task_id = runs[h].task.id
                /\ audit'[Len(audit')].action
                     = IF runs[h].task.done THEN "uncheck" ELSE "check"]_vars
    /\ [][\A h \in DOMAIN runs :
            (runs[h].pc = "update" /\ Acts(h)) =>
                IF runs'[h].pc = "insert"
                THEN /\ StoredTask(runs[h].task.id)'.done = ~runs[h].task.done
                     /\ audit' = audit /\ view' = view
                ELSE /\ runs'[h].pc = "failed"
                     /\ tasks' = tasks /\ audit' = audit /\ view' = view]_vars
    /\ [][\A h \in DOMAIN runs :
            runs[h].pc \in {"failed", "returned"} => ~Acts(h)]_vars
    /\ [][view' # view =>
            \E h \in DOMAIN runs : runs[h].pc = "setTimeline" /\ Acts(h)]_vars

\* a call on a 'js' task returned at once, a call on another task failed in
\* its update, and a third call checked a task off and logged it
ToggledAroundFailure ==
    /\ \E h \in DOMAIN runs :
          runs[h].pc = "returned" /\ runs[h].task.assignee = "js"
    /\ \E h \in DOMAIN runs : runs[h].pc = "failed"
    /\ \E h \in DOMAIN runs :
          /\ runs[h].pc = "done"
          /\ Len(audit) = 1 /\ audit[1].action = "check"
          /\ audit[1].task_id = runs[h].task.id
          /\ StoredTask(runs[h].task.id).done

====
